---------------------------- MODULE Spec2Model ----------------------------
(***************************************************************************)
(* Evaluation and scoring pipeline of the rule-anchored localization QA    *)
(* system: the mechanical validators, the evaluation engine with its score *)
(* calculation, and the review service with its override recomputation.    *)
(*                                                                         *)
(* Texts and identifiers are strings, handled character by character as    *)
(* the Python code does (in / upper / startswith / re).  Characters outside*)
(* ASCII are written with one otherwise unused ASCII character each:       *)
(*    "~"  full-width exclamation mark (U+FF01)                            *)
(*    "^"  full-width comma (U+FF0C)                                       *)
(*    "@"  the CJK character for year (U+5E74)                             *)
(*    "&" "|" "`" "$" "#" "*" "+"  the full-width colon, semicolon,        *)
(*         question mark, parentheses and angle brackets                   *)
(*    "'"  the ASCII double quote                                          *)
(*    "n", "h"  stand for the two CJK characters of the greeting in the    *)
(*         sample targets                                                  *)
(***************************************************************************)
EXTENDS Integers, Sequences, FiniteSets, TLC

(***************************************************************************)
(* Bounds of the model.                                                    *)
(***************************************************************************)
MaxQuality == 2
MaxCompliance == 1
MaxOverrides == 2
MaxIngests == 2

(***************************************************************************)
(* String helpers (Python str operations).                                 *)
(***************************************************************************)
\* the character at index i, "" outside the string
CharAt(s, i) == IF 1 <= i /\ i <= Len(s) THEN SubSeq(s, i, i) ELSE ""

Contains(s, kw) ==
    \E i \in 1..(Len(s) - Len(kw) + 1) : SubSeq(s, i, i + Len(kw) - 1) = kw

StartsWith(s, kw) == Len(s) >= Len(kw) /\ SubSeq(s, 1, Len(kw)) = kw

LowerAlpha == "abcdefghijklmnopqrstuvwxyz"
UpperAlpha == "ABCDEFGHIJKLMNOPQRSTUVWXYZ"

UpperChar(c) ==
    IF \E i \in 1..Len(LowerAlpha) : CharAt(LowerAlpha, i) = c
    THEN CharAt(UpperAlpha, CHOOSE i \in 1..Len(LowerAlpha) : CharAt(LowerAlpha, i) = c)
    ELSE c

LowerChar(c) ==
    IF \E i \in 1..Len(UpperAlpha) : CharAt(UpperAlpha, i) = c
    THEN CharAt(LowerAlpha, CHOOSE i \in 1..Len(UpperAlpha) : CharAt(UpperAlpha, i) = c)
    ELSE c

RECURSIVE Upper(_)
Upper(s) == IF s = "" THEN "" ELSE UpperChar(CharAt(s, 1)) \o Upper(SubSeq(s, 2, Len(s)))

RECURSIVE Lower(_)
Lower(s) == IF s = "" THEN "" ELSE LowerChar(CharAt(s, 1)) \o Lower(SubSeq(s, 2, Len(s)))

\* str.count(c) for a one-character c
RECURSIVE CountChar(_, _)
CountChar(s, c) ==
    IF s = "" THEN 0
    ELSE (IF CharAt(s, 1) = c THEN 1 ELSE 0) + CountChar(SubSeq(s, 2, Len(s)), c)

Max(a, b) == IF a >= b THEN a ELSE b
Min(a, b) == IF a <= b THEN a ELSE b
Abs(a) == IF a >= 0 THEN a ELSE 0 - a

\* str(index).zfill(3) for 0 <= index <= 9
Zfill3(index) == "00" \o CharAt("0123456789", index + 1)

(***************************************************************************)
(* models: enumerations.                                                   *)
(***************************************************************************)
MacroClass ==
    {"Terminology", "Punctuation", "Mechanics", "Standards", "Style", "Accuracy", "Legal"}

Severity == {"Minor", "Major", "Critical"}

FeedbackAction == {"accept", "change_severity", "reclassify", "dismiss"}

(***************************************************************************)
(* config: scoring configuration (defaults).                               *)
(***************************************************************************)
SEVERITY_MULTIPLIER_MINOR == 1
SEVERITY_MULTIPLIER_MAJOR == 2
SEVERITY_MULTIPLIER_CRITICAL == 3
STYLE_PUNCTUATION_CAP == 30

\* EvaluationEngine.severity_multipliers
severity_multipliers ==
    [s \in Severity |->
        CASE s = "Minor" -> SEVERITY_MULTIPLIER_MINOR
          [] s = "Major" -> SEVERITY_MULTIPLIER_MAJOR
          [] s = "Critical" -> SEVERITY_MULTIPLIER_CRITICAL]

(***************************************************************************)
(* The knowledge base: rules as the ingestion service creates them.        *)
(***************************************************************************)
\* DocumentIngestionService.default_weights
default_weights ==
    [c \in MacroClass |->
        CASE c = "Accuracy" -> 5
          [] c = "Terminology" -> 4
          [] c = "Mechanics" -> 3
          [] c = "Punctuation" -> 2
          [] c = "Style" -> 1
          [] c = "Legal" -> 6
          [] c = "Standards" -> 3]

\* any(word in text_lower for word in words)
AnyWordIn(words, text) == \E w \in words : Contains(text, w)

\* DocumentIngestionService._classify_macro_class
_classify_macro_class(rule_text) ==
    LET text_lower == Lower(rule_text) IN
    IF AnyWordIn({"punctuation", "comma", "period", "exclamation", "question", "~", "^"}, text_lower)
    THEN "Punctuation"
    ELSE IF AnyWordIn({"terminology", "term", "glossary", "translation", "translate"}, text_lower)
    THEN "Terminology"
    ELSE IF AnyWordIn({"format", "date", "number", "placeholder", "tag", "{", "}", "[", "]"}, text_lower)
    THEN "Mechanics"
    ELSE IF AnyWordIn({"legal", "compliance", "regulation", "law", "rights"}, text_lower)
    THEN "Legal"
    ELSE IF AnyWordIn({"accuracy", "correct", "precise", "exact", "meaning"}, text_lower)
    THEN "Accuracy"
    ELSE IF AnyWordIn({"standard", "iso", "specification", "requirement"}, text_lower)
    THEN "Standards"
    ELSE "Style"

\* DocumentIngestionService._determine_severity
_determine_severity(severity_cue) ==
    LET cue_lower == Lower(severity_cue) IN
    IF AnyWordIn({"must", "never", "required", "mandatory", "shall", "critical"}, cue_lower)
    THEN "Major"
    ELSE "Minor"

\* DocumentIngestionService._generate_regex_pattern; the patterns are named,
\* "None" is Python's None.
_generate_regex_pattern(rule_text, locale) ==
    LET text_lower == Lower(rule_text) IN
    IF Contains(text_lower, "exclamation") /\ locale = "zh-CN" THEN "HALF_EXCL"
    ELSE IF Contains(text_lower, "date") /\ Contains(text_lower, "yyyy@") THEN "ISO_DATE"
    ELSE IF Contains(text_lower, "placeholder") THEN "PLACEHOLDER"
    ELSE IF Contains(text_lower, "comma") /\ locale = "zh-CN" THEN "HALF_COMMA"
    ELSE "None"

\* DocumentIngestionService._process_rule; uuid8 is the first 8 characters
\* of a fresh uuid4 (hexadecimal digits).
_process_rule(rule_data, locale, index) ==
    LET macro_class == _classify_macro_class(rule_data.rule_text) IN
    [ rule_id          |-> Upper(locale) \o "-" \o Zfill3(index) \o "-" \o Upper(rule_data.uuid8),
      macro_class      |-> macro_class,
      rule_text        |-> rule_data.rule_text,
      default_severity |-> _determine_severity(rule_data.severity_cue),
      default_weight   |-> default_weights[macro_class],
      regex_ready      |-> rule_data.regex_candidate,
      regex_pattern    |-> IF rule_data.regex_candidate
                           THEN _generate_regex_pattern(rule_data.rule_text, locale)
                           ELSE "None" ]

\* The rules the language model extracted from the style guide (input of
\* the ingestion).
RawRules ==
    << [rule_text |-> "Use full-width ~ not half-width !", severity_cue |-> "should",
        regex_candidate |-> FALSE, uuid8 |-> "1a2b3c4d"],
       [rule_text |-> "Keep every placeholder, tag and line break unchanged", severity_cue |-> "must",
        regex_candidate |-> FALSE, uuid8 |-> "5e6f7a8b"],
       [rule_text |-> "Keep the exact meaning of the source", severity_cue |-> "must",
        regex_candidate |-> FALSE, uuid8 |-> "9c0d1e2f"],
       [rule_text |-> "Avoid a casual tone", severity_cue |-> "avoid",
        regex_candidate |-> FALSE, uuid8 |-> "3a4b5c6d"],
       [rule_text |-> "Write every date as yyyy@ format", severity_cue |-> "should",
        regex_candidate |-> TRUE, uuid8 |-> "7e8f9a0b"] >>

KbLocale == "zh-CN"

\* step 4 of ingest_document for the locale of the model, computed once
ProcessedRules == [i \in 1..Len(RawRules) |-> _process_rule(RawRules[i], KbLocale, i - 1)]

\* The knowledge base ingest_document builds from RawRules for a locale, at
\* the time that gives the version string.
KnowledgeBase(kb_version, locale) ==
    [ kb_version |-> kb_version, locale |-> locale,
      rules |-> IF locale = KbLocale THEN ProcessedRules
                ELSE [i \in 1..Len(RawRules) |-> _process_rule(RawRules[i], locale, i - 1)] ]

\* The knowledge base of the evaluations of locale zh-CN.
KB == KnowledgeBase("2025.01.01-0000", KbLocale)

(***************************************************************************)
(* Python re: the patterns the code uses, by name.  MatchEnd(p, text, i)   *)
(* is the index of the last character of the match of p that starts at     *)
(* index i of text, 0 when there is none.                                  *)
(***************************************************************************)
Digits == "0123456789"
IsDigit(c) == Len(c) = 1 /\ Contains(Digits, c)
\* \w: letters, digits and the underscore
IsWord(c) == Len(c) = 1 /\ (Contains(LowerAlpha, c) \/ Contains(UpperAlpha, c) \/ IsDigit(c) \/ c = "_")

\* open [^close]* close
DelimitedEnd(text, i, open, close) ==
    IF CharAt(text, i) = open /\ \E j \in (i + 1)..Len(text) : CharAt(text, j) = close
    THEN CHOOSE j \in (i + 1)..Len(text) :
            CharAt(text, j) = close /\ \A k \in (i + 1)..(j - 1) : CharAt(text, k) # close
    ELSE 0

MatchEnd(p, text, i) ==
    CASE p = "BRACE" -> DelimitedEnd(text, i, "{", "}")            \* \{[^}]*\}
      [] p = "PLACEHOLDER" -> DelimitedEnd(text, i, "{", "}")      \* \{[^}]*\}
      [] p = "BRACKET" -> DelimitedEnd(text, i, "[", "]")          \* \[[^\]]*\]
      [] p = "ANGLE" -> DelimitedEnd(text, i, "<", ">")            \* <[^>]*>
      [] p = "PERCENT" ->                                          \* %[sd]
            IF CharAt(text, i) = "%" /\ CharAt(text, i + 1) \in {"s", "d"} THEN i + 1 ELSE 0
      [] p = "PERCENT_NAME" ->                                     \* %\(\w+\)[sd]
            IF /\ CharAt(text, i) = "%"
               /\ CharAt(text, i + 1) = "("
               /\ \E j \in (i + 3)..Len(text) :
                      /\ \A k \in (i + 2)..(j - 1) : IsWord(CharAt(text, k))
                      /\ CharAt(text, j) = ")"
                      /\ CharAt(text, j + 1) \in {"s", "d"}
            THEN 1 + CHOOSE j \in (i + 3)..Len(text) :
                      /\ \A k \in (i + 2)..(j - 1) : IsWord(CharAt(text, k))
                      /\ CharAt(text, j) = ")"
                      /\ CharAt(text, j + 1) \in {"s", "d"}
            ELSE 0
      [] p = "ISO_DATE" ->                                         \* \d{4}-\d{1,2}-\d{1,2}
            IF /\ \A k \in i..(i + 3) : IsDigit(CharAt(text, k))
               /\ CharAt(text, i + 4) = "-"
               /\ IsDigit(CharAt(text, i + 5))
            THEN LET m == IF IsDigit(CharAt(text, i + 6)) THEN i + 6 ELSE i + 5 IN
                 IF CharAt(text, m + 1) = "-" /\ IsDigit(CharAt(text, m + 2))
                 THEN (IF IsDigit(CharAt(text, m + 3)) THEN m + 3 ELSE m + 2)
                 ELSE 0
            ELSE 0
      [] p = "HALF_EXCL" ->                                        \* [^~]!
            IF i + 1 <= Len(text) /\ CharAt(text, i) # "~" /\ CharAt(text, i + 1) = "!"
            THEN i + 1 ELSE 0
      [] p = "HALF_COMMA" ->                                       \* [^^],
            IF i + 1 <= Len(text) /\ CharAt(text, i) # "^" /\ CharAt(text, i + 1) = ","
            THEN i + 1 ELSE 0

\* re.findall / re.finditer: the non-overlapping matches, left to right
RECURSIVE FindAllFrom(_, _, _)
FindAllFrom(p, text, i) ==
    IF i > Len(text) THEN <<>>
    ELSE LET e == MatchEnd(p, text, i) IN
         IF e >= i THEN <<SubSeq(text, i, e)>> \o FindAllFrom(p, text, e + 1)
         ELSE FindAllFrom(p, text, i + 1)

FindAll(p, text) == FindAllFrom(p, text, 1)

Range(seq) == {seq[i] : i \in 1..Len(seq)}

\* the first of the indices of a list that satisfy a test, 0 when none does
FirstIndex(indices) ==
    IF indices = {} THEN 0
    ELSE CHOOSE i \in indices : \A j \in indices : i <= j

(***************************************************************************)
(* DeterministicValidators.                                                *)
(***************************************************************************)
\* models.Finding as the code reads and writes it; dismissed and accepted
\* are the keys the review service adds (absent reads as False).
Finding(segment_id, rule_id, severity, penalty, deterministic) ==
    [ segment_id    |-> segment_id,
      rule_id       |-> rule_id,
      severity      |-> severity,
      penalty       |-> penalty,
      deterministic |-> deterministic,
      dismissed     |-> FALSE,
      accepted      |-> FALSE ]

\* DeterministicValidators.zh_punctuation_map, in insertion order
zh_punctuation_map ==
    << <<"!", "~">>, <<",", "^">>, <<":", "&">>, <<";", "|">>, <<"?", "`">>,
       <<"'", "'">>, <<"(", "$">>, <<")", "#">>, <<"<", "*">>, <<">", "+">> >>

\* DeterministicValidators.placeholder_patterns
placeholder_patterns == <<"BRACE", "BRACKET", "ANGLE", "PERCENT", "PERCENT_NAME">>

RECURSIVE PunctuationLoop(_, _, _, _)
PunctuationLoop(k, target_text, segment_id, punct_rules) ==
    IF k > Len(zh_punctuation_map) THEN <<>>
    ELSE
      LET half_width == zh_punctuation_map[k][1]
          full_width == zh_punctuation_map[k][2]
          positions  == CountChar(target_text, half_width)
          Mentions(rule) == Contains(rule.rule_text, half_width) \/ Contains(rule.rule_text, full_width)
          m == FirstIndex({k2 \in 1..Len(punct_rules) : Mentions(punct_rules[k2])})
          matching == IF m > 0 THEN <<punct_rules[m]>>
                      ELSE IF Len(punct_rules) > 0 THEN <<punct_rules[1]>>
                      ELSE <<>>
          found == IF positions > 0 /\ Len(matching) > 0
                   THEN [i \in 1..positions |->
                            Finding(segment_id, matching[1].rule_id, matching[1].default_severity,
                                    matching[1].default_weight * 2, TRUE)]
                   ELSE <<>>
      IN found \o PunctuationLoop(k + 1, target_text, segment_id, punct_rules)

_check_punctuation_width(source_text, target_text, locale, segment_id, rules) ==
    IF locale # "zh-CN" THEN <<>>
    ELSE
      LET IsPunct(rule) == rule.macro_class = "Punctuation" /\ Contains(Lower(rule.rule_text), "width")
      IN PunctuationLoop(1, target_text, segment_id, SelectSeq(rules, IsPunct))

\* the set of all placeholders of a text
Placeholders(text) ==
    UNION {Range(FindAll(placeholder_patterns[k], text)) : k \in 1..Len(placeholder_patterns)}

\* faulty variant: placeholders added to the target are not reported
_check_placeholders_MissingOnly(source_text, target_text, locale, segment_id, rules) ==
    LET IsPh(rule) == Contains(Lower(rule.rule_text), "placeholder") \/ Contains(Lower(rule.rule_text), "tag")
        placeholder_rules == SelectSeq(rules, IsPh)
        missing_placeholders == Placeholders(source_text) \ Placeholders(target_text)
    IN IF Len(placeholder_rules) = 0 THEN <<>>
       ELSE [i \in 1..Cardinality(missing_placeholders) |->
                Finding(segment_id, placeholder_rules[1].rule_id, "Major",
                        placeholder_rules[1].default_weight * 2, TRUE)]

_check_placeholders(source_text, target_text, locale, segment_id, rules) ==
    LET IsPh(rule) == Contains(Lower(rule.rule_text), "placeholder") \/ Contains(Lower(rule.rule_text), "tag")
        placeholder_rules == SelectSeq(rules, IsPh)
        source_placeholders == Placeholders(source_text)
        target_placeholders == Placeholders(target_text)
        missing_placeholders == source_placeholders \ target_placeholders
        extra_placeholders == {p \in target_placeholders \ source_placeholders : p \notin source_placeholders}
    IN IF Len(placeholder_rules) = 0 THEN <<>>
       ELSE LET rule == placeholder_rules[1] IN
            [i \in 1..(Cardinality(missing_placeholders) + Cardinality(extra_placeholders)) |->
                Finding(segment_id, rule.rule_id, "Major", rule.default_weight * 2, TRUE)]

_check_date_format(source_text, target_text, locale, segment_id, rules) ==
    IF locale # "zh-CN" THEN <<>>
    ELSE
      LET IsDate(rule) == /\ Contains(Lower(rule.rule_text), "date")
                          /\ (Contains(rule.rule_text, "@") \/ Contains(Lower(rule.rule_text), "format"))
          date_rules == SelectSeq(rules, IsDate)
          iso_dates == FindAll("ISO_DATE", target_text)
      IN IF Len(date_rules) = 0 THEN <<>>
         ELSE LET rule == date_rules[1] IN
              [i \in 1..Len(iso_dates) |->
                  Finding(segment_id, rule.rule_id, rule.default_severity, rule.default_weight * 2, TRUE)]

_check_line_breaks(source_text, target_text, locale, segment_id, rules) ==
    LET IsLb(rule) == Contains(Lower(rule.rule_text), "line break") \/ Contains(Lower(rule.rule_text), "formatting")
        linebreak_rules == SelectSeq(rules, IsLb)
        source_breaks == CountChar(source_text, "\n")
        target_breaks == CountChar(target_text, "\n")
    IN IF Len(linebreak_rules) = 0 THEN <<>>
       ELSE IF Abs(source_breaks - target_breaks) > 2
       THEN <<Finding(segment_id, linebreak_rules[1].rule_id, "Minor", linebreak_rules[1].default_weight * 1, TRUE)>>
       ELSE <<>>

\* faulty variant: the first pattern that does not compile ends the check
RECURSIVE _check_regex_rules_StopsAtInvalid(_, _, _, _, _)
_check_regex_rules_StopsAtInvalid(source_text, target_text, locale, segment_id, regex_rules) ==
    IF Len(regex_rules) = 0 \/ Head(regex_rules).regex_pattern = "INVALID" THEN <<>>
    ELSE
      LET rule == Head(regex_rules)
          matches == IF rule.regex_pattern = "None" THEN <<>>
                     ELSE FindAll(rule.regex_pattern, target_text)
          found == [i \in 1..Len(matches) |->
                       Finding(segment_id, rule.rule_id, rule.default_severity, rule.default_weight * 2, TRUE)]
      IN found \o _check_regex_rules_StopsAtInvalid(source_text, target_text, locale, segment_id,
                                                    Tail(regex_rules))

RECURSIVE _check_regex_rules(_, _, _, _, _)
_check_regex_rules(source_text, target_text, locale, segment_id, regex_rules) ==
    IF Len(regex_rules) = 0 THEN <<>>
    ELSE
      LET rule == Head(regex_rules)
          matches == IF rule.regex_pattern \in {"None", "INVALID"} THEN <<>>
                     ELSE FindAll(rule.regex_pattern, target_text)
          found == [i \in 1..Len(matches) |->
                       Finding(segment_id, rule.rule_id, rule.default_severity, rule.default_weight * 2, TRUE)]
      IN found \o _check_regex_rules(source_text, target_text, locale, segment_id, Tail(regex_rules))

\* "seg_" + str(hash(target_text))[:8]: the hash is taken to be injective
\* on the sample texts
DeterministicSegmentId(target_text) == "seg_#" \o target_text

run_all_checks(source_text, target_text, locale, rules) ==
    LET segment_id == DeterministicSegmentId(target_text)
        IsRegex(rule) == rule.regex_ready /\ rule.regex_pattern # "None"
        regex_rules == SelectSeq(rules, IsRegex)
    IN _check_punctuation_width(source_text, target_text, locale, segment_id, rules)
       \o _check_placeholders(source_text, target_text, locale, segment_id, rules)
       \o _check_date_format(source_text, target_text, locale, segment_id, rules)
       \o _check_line_breaks(source_text, target_text, locale, segment_id, rules)
       \o _check_regex_rules(source_text, target_text, locale, segment_id, regex_rules)

(***************************************************************************)
(* The inputs of the model.                                                *)
(***************************************************************************)
\* the evaluation requests
EvaluationRequests ==
    { [source_text |-> "Hi!", target_text |-> "nh!", locale |-> "zh-CN", kb_version |-> "None"],
      [source_text |-> "Hi {name}!", target_text |-> "nh~", locale |-> "zh-CN", kb_version |-> "None"],
      [source_text |-> "On 2024-1-5\n\n\n", target_text |-> "2024-1-5 nh!!", locale |-> "zh-CN",
       kb_version |-> "None"] }

\* what the quality assessor may report
QualityIssueTypes == {"grammar_error", "accuracy_error", "professionalism_error"}
QualityItems == [issue_type : QualityIssueTypes, severity : Severity]

\* what the rule-compliance assessor may report: a rule of the candidate
\* list or a rule id that is no candidate
ComplianceRuleIds == {KB.rules[3].rule_id, "ZH-CN-999-FFFFFFFF"}
ComplianceItems == [rule_id : ComplianceRuleIds, severity : Severity]

\* synthetic_rule_id = f"QUALITY_{issue_type.upper()}", computed once per
\* issue type
SyntheticRuleId == [issue_type \in QualityIssueTypes |-> "QUALITY_" \o Upper(issue_type)]

\* str(uuid.uuid4())[:8] of rule i of the n-th ingestion: every ingestion
\* draws fresh identifiers, so no two knowledge bases share a rule id
Uuid8(n, i) ==
    IF n = 1 THEN RawRules[i].uuid8
    ELSE CharAt(Digits, n + 1) \o SubSeq(RawRules[i].uuid8, 2, 8)

\* step 4 of the n-th run of ingest_document on the style guide, computed
\* once per run
IngestedRules ==
    [n \in 1..MaxIngests |->
        IF n = 1 THEN ProcessedRules
        ELSE [i \in 1..Len(RawRules) |->
                 _process_rule([RawRules[i] EXCEPT !.uuid8 = Uuid8(n, i)], KbLocale, i - 1)]]

\* every rule id a finding of the model can carry
KnownRuleIds ==
    {KB.rules[i].rule_id : i \in 1..Len(KB.rules)}
    \cup {IngestedRules[n][i].rule_id : n \in 1..MaxIngests, i \in 1..Len(RawRules)}
    \cup ComplianceRuleIds
    \cup {SyntheticRuleId[t] : t \in QualityIssueTypes}

(***************************************************************************)
(* EvaluationEngine: score calculation.                                    *)
(***************************************************************************)
\* EvaluationEngine._get_macro_class_from_finding
_get_macro_class_from_finding(finding) ==
    LET rule_id == Upper(finding.rule_id) IN
    IF StartsWith(rule_id, "QUALITY_")
    THEN IF \/ Contains(rule_id, "SCRIPT_MIXING") \/ Contains(rule_id, "ACCURACY_ERROR")
            \/ Contains(rule_id, "COMPLETENESS_ERROR") \/ Contains(rule_id, "GRAMMAR_ERROR")
         THEN "Accuracy"
         ELSE IF Contains(rule_id, "TERMINOLOGY_ERROR") THEN "Terminology"
         ELSE IF Contains(rule_id, "PROFESSIONALISM_ERROR") THEN "Style"
         ELSE "Accuracy"
    ELSE IF Contains(rule_id, "PUNCT") \/ Contains(rule_id, "EXCL") \/ Contains(rule_id, "COMMA")
    THEN "Punctuation"
    ELSE IF Contains(rule_id, "TERM") \/ Contains(rule_id, "GLOSS") THEN "Terminology"
    ELSE IF Contains(rule_id, "DATE") \/ Contains(rule_id, "PLACEHOLDER") \/ Contains(rule_id, "TAG")
    THEN "Mechanics"
    ELSE IF Contains(rule_id, "LEGAL") THEN "Legal"
    ELSE IF Contains(rule_id, "ACCURACY") \/ Contains(rule_id, "MEANING") THEN "Accuracy"
    ELSE "Style"

\* _get_macro_class_from_finding, computed once per rule id
EngineHeuristicClass ==
    [rule_id \in KnownRuleIds |-> _get_macro_class_from_finding([rule_id |-> rule_id])]

\* rule_lookup.get(finding.rule_id), then the rule's class or the heuristic
EngineMacroClass(finding, kb) ==
    LET HasId(rule) == rule.rule_id = finding.rule_id
        hits == SelectSeq(kb.rules, HasId)
    IN IF Len(hits) > 0 THEN hits[Len(hits)].macro_class
       ELSE EngineHeuristicClass[finding.rule_id]

\* by_macro[macro_class] created on first use, then penalty, count and
\* rules_triggered updated
AddToMacro(by_macro, macro_class, penalty, rule_id) ==
    IF macro_class \in DOMAIN by_macro
    THEN [by_macro EXCEPT ![macro_class] =
            [ penalty         |-> @.penalty + penalty,
              count           |-> @.count + 1,
              rules_triggered |-> Append(@.rules_triggered, rule_id) ]]
    ELSE by_macro @@ (macro_class :>
            [ penalty |-> penalty, count |-> 1, rules_triggered |-> <<rule_id>> ])

\* by_macro.get(macro_class, {}).get('penalty', 0)
PenaltyOf(by_macro, macro_class) ==
    IF macro_class \in DOMAIN by_macro THEN by_macro[macro_class].penalty ELSE 0

\* the loop "for finding in findings" of _calculate_score
RECURSIVE EngineGroup(_, _, _)
EngineGroup(findings, kb, acc) ==
    IF Len(findings) = 0 THEN acc
    ELSE LET finding == Head(findings) IN
         EngineGroup(Tail(findings), kb,
            [ by_macro      |-> AddToMacro(acc.by_macro, EngineMacroClass(finding, kb),
                                           finding.penalty, finding.rule_id),
              total_penalty |-> acc.total_penalty + finding.penalty ])

\* the total penalty after the style/punctuation cap
EngineCapTotal(total_penalty, by_macro) ==
    LET style_penalty == PenaltyOf(by_macro, "Style")
        punctuation_penalty == PenaltyOf(by_macro, "Punctuation")
    IN IF style_penalty + punctuation_penalty > STYLE_PUNCTUATION_CAP
       THEN total_penalty - ((style_penalty + punctuation_penalty) - STYLE_PUNCTUATION_CAP)
       ELSE total_penalty

\* the breakdown after the style/punctuation cap
EngineCapBreakdown(by_macro) ==
    LET style_penalty == PenaltyOf(by_macro, "Style")
        punctuation_penalty == PenaltyOf(by_macro, "Punctuation")
    IN IF style_penalty + punctuation_penalty > STYLE_PUNCTUATION_CAP
       THEN [c \in DOMAIN by_macro |->
                IF c \in {"Style", "Punctuation"}
                THEN [by_macro[c] EXCEPT !.penalty = Min(@, STYLE_PUNCTUATION_CAP \div 2)]
                ELSE by_macro[c]]
       ELSE by_macro

\* final_score = max(0, base_score - total_penalty)
EngineFinalScore(total_penalty) == Max(0, 100 - total_penalty)

\* EvaluationEngine._calculate_score: the ScoreReport (the texts and the
\* version strings, which nothing reads, are left out)
_calculate_score(job_id, findings, kb, locale) ==
    LET grouped == EngineGroup(findings, kb, [by_macro |-> <<>>, total_penalty |-> 0])
    IN [ job_id       |-> job_id,
         kb_version   |-> kb.kb_version,
         final_score  |-> EngineFinalScore(EngineCapTotal(grouped.total_penalty, grouped.by_macro)),
         findings     |-> findings,
         by_macro     |-> EngineCapBreakdown(grouped.by_macro),
         locale       |-> locale,
         last_updated |-> FALSE ]

(***************************************************************************)
(* EmbeddingService.  An instance is its rule_index (the rules in the      *)
(* order of the dict) and its kb_version and locale; the embeddings        *)
(* directory maps the name of an index file to the rules saved in it.      *)
(* The embedding vectors are left out: nothing but the ranking reads them. *)
(***************************************************************************)
\* EmbeddingService.__init__ without arguments
EmbeddingService == [rule_index |-> <<>>, kb_version |-> "None", locale |-> "None"]

\* the file name _save_index and _load_index use
IndexFile(kb_version, locale) ==
    IF kb_version # "None" /\ locale # "None"
    THEN "rule_index_" \o kb_version \o "_" \o locale
    ELSE "rule_index_default"

\* self.rule_index[rule_id] = {...} for one rule
IndexPut(rule_index, rule) ==
    IF \E k \in 1..Len(rule_index) : rule_index[k].rule_id = rule.rule_id
    THEN [k \in 1..Len(rule_index) |->
            IF rule_index[k].rule_id = rule.rule_id THEN rule ELSE rule_index[k]]
    ELSE Append(rule_index, rule)

\* the same for a list of rules, in order
RECURSIVE IndexPutAll(_, _)
IndexPutAll(rule_index, rules) ==
    IF Len(rules) = 0 THEN rule_index
    ELSE IndexPutAll(IndexPut(rule_index, Head(rules)), Tail(rules))

\* EmbeddingService._save_index: the embeddings directory afterwards
_save_index(service, index_dir) ==
    LET index_file == IndexFile(service.kb_version, service.locale)
    IN [f \in DOMAIN index_dir \cup {index_file} |->
            IF f = index_file THEN service.rule_index ELSE index_dir[f]]

\* EmbeddingService.index_rules; embeddings_ok tells whether the embedding
\* call succeeded, raised whether index_rules raised
index_rules(service, index_dir, rules, kb_version, locale, embeddings_ok) ==
    LET named == [service EXCEPT
                    !.kb_version = IF kb_version # "None" THEN kb_version ELSE @,
                    !.locale = IF locale # "None" THEN locale ELSE @]
        indexed == [named EXCEPT !.rule_index = IndexPutAll(@, rules)]
    IN IF embeddings_ok
       THEN [service |-> indexed, index_dir |-> _save_index(indexed, index_dir), raised |-> FALSE]
       ELSE [service |-> named, index_dir |-> index_dir, raised |-> TRUE]

\* EmbeddingService._load_index: the instance afterwards
_load_index(service, index_dir, kb_version, locale) ==
    LET kb_ver == IF kb_version # "None" THEN kb_version ELSE service.kb_version
        loc == IF locale # "None" THEN locale ELSE service.locale
        index_file == IndexFile(kb_ver, loc)
    IN IF index_file \notin DOMAIN index_dir THEN service
       ELSE [service EXCEPT !.rule_index = IndexPutAll(@, index_dir[index_file])]

\* EmbeddingService.hybrid_search: the instance afterwards and the rules
\* returned.  The ranking permutes the rules of the index; they are given
\* here in the order of the index, at most top_k of them.
hybrid_search(service, index_dir, top_k, locale, kb_version, embeddings_ok) ==
    LET loaded == IF service.rule_index = <<>>
                  THEN _load_index(service, index_dir, kb_version, locale)
                  ELSE service
    IN [ service |-> loaded,
         results |-> IF loaded.rule_index = <<>> \/ ~embeddings_ok THEN <<>>
                     ELSE SubSeq(loaded.rule_index, 1, Min(top_k, Len(loaded.rule_index))) ]

(***************************************************************************)
(* EvaluationEngine: the evaluation pipeline.                              *)
(***************************************************************************)
\* the knowledge base files of the data directory
KnowledgeBases == {KB}

\* order of the characters of a version string
VersionAlpha == "-.0123456789"
CharRank(c) == CHOOSE i \in 1..Len(VersionAlpha) : CharAt(VersionAlpha, i) = c

\* a <= b for strings (the order kb_files.sort uses)
RECURSIVE StrLeq(_, _)
StrLeq(a, b) ==
    IF a = "" THEN TRUE
    ELSE IF b = "" THEN FALSE
    ELSE IF CharAt(a, 1) = CharAt(b, 1) THEN StrLeq(SubSeq(a, 2, Len(a)), SubSeq(b, 2, Len(b)))
    ELSE CharRank(CharAt(a, 1)) < CharRank(CharAt(b, 1))

\* EvaluationEngine._load_knowledge_base; <<>> is None, <<kb>> a loaded
\* knowledge base
_load_knowledge_base(kb_dir, locale, kb_version) ==
    LET kb_files == {kb \in kb_dir : kb.locale = locale} IN
    IF kb_files = {} THEN <<>>
    ELSE IF kb_version # "None"
    THEN (IF \E kb \in kb_files : kb.kb_version = kb_version
          THEN <<CHOOSE kb \in kb_files : kb.kb_version = kb_version>>
          ELSE <<>>)
    ELSE <<CHOOSE kb \in kb_files : \A other \in kb_files : StrLeq(other.kb_version, kb.kb_version)>>

\* faulty variant: the penalty of a quality finding ignores its severity
QualityFindings_FlatPenalty(job_id, quality_findings) ==
    [i \in 1..Len(quality_findings) |->
        Finding("seg_" \o job_id, SyntheticRuleId[quality_findings[i].issue_type],
                quality_findings[i].severity, 15, FALSE)]

\* the loop over quality_findings of evaluate
QualityFindings(job_id, quality_findings) ==
    [i \in 1..Len(quality_findings) |->
        LET issue_type == quality_findings[i].issue_type
            severity == quality_findings[i].severity
            base_weight == 15
        IN Finding("seg_" \o job_id, SyntheticRuleId[issue_type], severity,
                   base_weight * severity_multipliers[severity], FALSE)]

\* faulty variant: a finding whose rule id is no candidate is kept, with the
\* weight of the first candidate
RECURSIVE ComplianceFindings_KeepsUnmatched(_, _, _)
ComplianceFindings_KeepsUnmatched(job_id, llm_findings, candidate_rules) ==
    IF Len(llm_findings) = 0 THEN <<>>
    ELSE
      LET llm_finding == Head(llm_findings)
          IsMatch(rule) == rule.rule_id = llm_finding.rule_id
          m == FirstIndex({k \in 1..Len(candidate_rules) : IsMatch(candidate_rules[k])})
          guessed == IF m > 0 THEN m ELSE 1
      IN <<Finding("seg_" \o job_id, llm_finding.rule_id, llm_finding.severity,
                   candidate_rules[guessed].default_weight
                       * severity_multipliers[llm_finding.severity], FALSE)>>
         \o ComplianceFindings_KeepsUnmatched(job_id, Tail(llm_findings), candidate_rules)

\* the loop over llm_findings of evaluate
RECURSIVE ComplianceFindings(_, _, _)
ComplianceFindings(job_id, llm_findings, candidate_rules) ==
    IF Len(llm_findings) = 0 THEN <<>>
    ELSE
      LET llm_finding == Head(llm_findings)
          IsMatch(rule) == rule.rule_id = llm_finding.rule_id
          m == FirstIndex({k \in 1..Len(candidate_rules) : IsMatch(candidate_rules[k])})
          found == IF m > 0
                   THEN <<Finding("seg_" \o job_id, llm_finding.rule_id, llm_finding.severity,
                                  candidate_rules[m].default_weight
                                      * severity_multipliers[llm_finding.severity], FALSE)>>
                   ELSE <<>>
      IN found \o ComplianceFindings(job_id, Tail(llm_findings), candidate_rules)

\* run_all_checks on the rules of the knowledge base, computed once per
\* request
DeterministicFindings ==
    [r \in {[source_text |-> q.source_text, target_text |-> q.target_text, locale |-> q.locale]
                : q \in EvaluationRequests} |->
        run_all_checks(r.source_text, r.target_text, r.locale, KB.rules)]

\* EvaluationEngine.evaluate after the knowledge base is loaded: the score
\* report it saves and returns
evaluate(job_id, source_text, target_text, locale, kb, quality_findings, candidate_rules, llm_findings) ==
    LET deterministic_findings == DeterministicFindings[
                [source_text |-> source_text, target_text |-> target_text, locale |-> locale]]
        all_findings ==
            deterministic_findings
            \o QualityFindings(job_id, quality_findings)
            \o (IF Len(candidate_rules) > 0
                THEN ComplianceFindings(job_id, llm_findings, candidate_rules)
                ELSE <<>>)
    IN _calculate_score(job_id, all_findings, kb, locale)

(***************************************************************************)
(* ReviewService.                                                          *)
(***************************************************************************)
\* faulty variant: the fallback of the classification is Accuracy
_determine_macro_class_FallbackAccuracy(rule_id_in) ==
    LET rule_id == Upper(rule_id_in) IN
    IF Contains(rule_id, "PUNCT") \/ Contains(rule_id, "EXCL") \/ Contains(rule_id, "COMMA")
    THEN "Punctuation"
    ELSE IF Contains(rule_id, "TERM") \/ Contains(rule_id, "GLOSS") THEN "Terminology"
    ELSE IF Contains(rule_id, "DATE") \/ Contains(rule_id, "PLACEHOLDER") \/ Contains(rule_id, "TAG")
    THEN "Mechanics"
    ELSE IF Contains(rule_id, "LEGAL") THEN "Legal"
    ELSE "Accuracy"

\* ReviewService._determine_macro_class
_determine_macro_class(rule_id_in) ==
    LET rule_id == Upper(rule_id_in) IN
    IF Contains(rule_id, "PUNCT") \/ Contains(rule_id, "EXCL") \/ Contains(rule_id, "COMMA")
    THEN "Punctuation"
    ELSE IF Contains(rule_id, "TERM") \/ Contains(rule_id, "GLOSS") THEN "Terminology"
    ELSE IF Contains(rule_id, "DATE") \/ Contains(rule_id, "PLACEHOLDER") \/ Contains(rule_id, "TAG")
    THEN "Mechanics"
    ELSE IF Contains(rule_id, "LEGAL") THEN "Legal"
    ELSE IF Contains(rule_id, "ACCURACY") \/ Contains(rule_id, "MEANING") THEN "Accuracy"
    ELSE "Style"

\* _determine_macro_class, computed once per rule id
ReviewMacroClass == [rule_id \in KnownRuleIds |-> _determine_macro_class(rule_id)]

\* faulty variant: the loop skips no finding
SkipFinding_Never(finding) == FALSE

\* whether the loop of _recalculate_score skips the finding
SkipFinding(finding) == finding.dismissed

\* the loop "for finding in findings" of _recalculate_score
RECURSIVE ReviewGroup(_, _)
ReviewGroup(findings, acc) ==
    IF Len(findings) = 0 THEN acc
    ELSE LET finding == Head(findings) IN
         IF SkipFinding(finding) THEN ReviewGroup(Tail(findings), acc)
         ELSE ReviewGroup(Tail(findings),
                [ by_macro      |-> AddToMacro(acc.by_macro, ReviewMacroClass[finding.rule_id],
                                               finding.penalty, finding.rule_id),
                  total_penalty |-> acc.total_penalty + finding.penalty ])

\* faulty variant: the cap is not applied
ReviewCapTotal_NoCap(total_penalty, by_macro) == total_penalty

\* the total penalty after the style/punctuation cap (30 points)
ReviewCapTotal(total_penalty, by_macro) ==
    LET style_penalty == PenaltyOf(by_macro, "Style")
        punctuation_penalty == PenaltyOf(by_macro, "Punctuation")
    IN IF style_penalty + punctuation_penalty > 30
       THEN total_penalty - ((style_penalty + punctuation_penalty) - 30)
       ELSE total_penalty

\* the breakdown after the style/punctuation cap
ReviewCapBreakdown(by_macro) ==
    LET style_penalty == PenaltyOf(by_macro, "Style")
        punctuation_penalty == PenaltyOf(by_macro, "Punctuation")
    IN IF style_penalty + punctuation_penalty > 30
       THEN [c \in DOMAIN by_macro |->
                IF c \in {"Style", "Punctuation"}
                THEN [by_macro[c] EXCEPT !.penalty = Min(@, 15)]
                ELSE by_macro[c]]
       ELSE by_macro

\* faulty variant: the score has no floor
ReviewFinalScore_NoFloor(total_penalty) == 100 - total_penalty

\* final_score = max(0, base_score - total_penalty)
ReviewFinalScore(total_penalty) == Max(0, 100 - total_penalty)

\* faulty variant: the breakdown is not reset before the loop
_recalculate_score_KeepsBreakdown(evaluation) ==
    LET grouped == ReviewGroup(evaluation.findings,
                               [by_macro |-> evaluation.by_macro, total_penalty |-> 0])
    IN [evaluation EXCEPT
            !.final_score  = ReviewFinalScore(ReviewCapTotal(grouped.total_penalty, grouped.by_macro)),
            !.by_macro     = ReviewCapBreakdown(grouped.by_macro),
            !.last_updated = TRUE]

\* ReviewService._recalculate_score; last_updated is set to the time of
\* the call, kept here as "has been set"
_recalculate_score(evaluation) ==
    LET grouped == ReviewGroup(evaluation.findings, [by_macro |-> <<>>, total_penalty |-> 0])
    IN [evaluation EXCEPT
            !.final_score  = ReviewFinalScore(ReviewCapTotal(grouped.total_penalty, grouped.by_macro)),
            !.by_macro     = ReviewCapBreakdown(grouped.by_macro),
            !.last_updated = TRUE]

\* the finding matches the identifier of the request
MatchesId(finding, finding_id) ==
    finding.segment_id = finding_id \/ finding.rule_id = finding_id

\* ReviewService._find_evaluation_by_finding: the evaluation files that
\* contain the finding; the first of them in directory order is used
FilesWithFinding(evals, finding_id) ==
    {file \in DOMAIN evals :
        \E i \in 1..Len(evals[file].findings) : MatchesId(evals[file].findings[i], finding_id)}

\* severity_multipliers.get(value, 2) of process_override
ReviewMultiplier(value) ==
    CASE value = "Minor" -> 1
      [] value = "Major" -> 2
      [] value = "Critical" -> 3
      [] OTHER -> 2

\* faulty variant: the base weight is taken as if the penalty were always
\* the Major one
ChangedPenalty_FromMajor(penalty, old_value, new_value) ==
    (penalty \div 2) * ReviewMultiplier(new_value)

\* the penalty process_override gives a finding whose severity changes
ChangedPenalty(penalty, old_value, new_value) ==
    LET base_weight == penalty \div ReviewMultiplier(old_value)
    IN base_weight * ReviewMultiplier(new_value)

\* faulty variant: a dismissal sets the flag and keeps the penalty
MutateFinding_DismissKeepsPenalty(finding, request) ==
    IF request.action = "change_severity" /\ request.new_severity # "None"
    THEN [finding EXCEPT !.severity = request.new_severity,
                         !.penalty = ChangedPenalty(finding.penalty, finding.severity, request.new_severity)]
    ELSE IF request.action = "dismiss"
    THEN [finding EXCEPT !.dismissed = TRUE]
    ELSE IF request.action = "accept"
    THEN [finding EXCEPT !.accepted = TRUE]
    ELSE finding

\* faulty variant: an acceptance clears the penalty
MutateFinding_AcceptClearsPenalty(finding, request) ==
    IF request.action = "change_severity" /\ request.new_severity # "None"
    THEN [finding EXCEPT !.severity = request.new_severity,
                         !.penalty = ChangedPenalty(finding.penalty, finding.severity, request.new_severity)]
    ELSE IF request.action = "dismiss"
    THEN [finding EXCEPT !.dismissed = TRUE, !.penalty = 0]
    ELSE IF request.action = "accept"
    THEN [finding EXCEPT !.accepted = TRUE, !.penalty = 0]
    ELSE finding

\* the branches of process_override that update the finding
MutateFinding(finding, request) ==
    IF request.action = "change_severity" /\ request.new_severity # "None"
    THEN [finding EXCEPT !.severity = request.new_severity,
                         !.penalty = ChangedPenalty(finding.penalty, finding.severity, request.new_severity)]
    ELSE IF request.action = "dismiss"
    THEN [finding EXCEPT !.dismissed = TRUE, !.penalty = 0]
    ELSE IF request.action = "accept"
    THEN [finding EXCEPT !.accepted = TRUE]
    ELSE finding

\* new_value of the feedback event
NewValue(finding, request) ==
    IF request.action = "change_severity" /\ request.new_severity # "None"
    THEN request.new_severity
    ELSE IF request.action = "dismiss" THEN "Dismissed"
    ELSE IF request.action = "accept" THEN "Accepted"
    ELSE finding.severity

\* faulty variant: every finding that carries the identifier is updated
process_override_AllMatches(evaluation, request, event_id) ==
    LET Matches(f) == MatchesId(f, request.finding_id)
        i == FirstIndex({k \in 1..Len(evaluation.findings) : Matches(evaluation.findings[k])})
        finding == evaluation.findings[i]
    IN [ evaluation |->
            _recalculate_score(
                [evaluation EXCEPT !.findings =
                    [k \in 1..Len(evaluation.findings) |->
                        IF Matches(evaluation.findings[k])
                        THEN MutateFinding(evaluation.findings[k], request)
                        ELSE evaluation.findings[k]]]),
         feedback_event |->
            [ event_id   |-> event_id,
              segment_id |-> finding.segment_id,
              rule_id    |-> finding.rule_id,
              action     |-> request.action,
              old_value  |-> finding.severity,
              new_value  |-> NewValue(finding, request) ] ]

\* ReviewService.process_override on the evaluation that was found: the
\* evaluation it saves and the feedback event it saves and returns
process_override(evaluation, request, event_id) ==
    LET Matches(f) == MatchesId(f, request.finding_id)
        i == FirstIndex({k \in 1..Len(evaluation.findings) : Matches(evaluation.findings[k])})
        finding == evaluation.findings[i]
    IN [ evaluation |->
            _recalculate_score(
                [evaluation EXCEPT !.findings[i] = MutateFinding(finding, request)]),
         feedback_event |->
            [ event_id   |-> event_id,
              segment_id |-> finding.segment_id,
              rule_id    |-> finding.rule_id,
              action     |-> request.action,
              old_value  |-> finding.severity,
              new_value  |-> NewValue(finding, request) ] ]

(***************************************************************************)
(* The system: the files of the data directory, the service instances of   *)
(* the application, and the requests in progress.                          *)
(***************************************************************************)
VARIABLES
    evaluations,        \* data/evaluations: job id -> saved evaluation
    feedback,           \* data/feedback: the saved feedback events, in order of creation
    response,           \* what the last request answered returned: "none", "ok" or "error"
    served,             \* the number of evaluation and of override requests answered
    knowledge_bases,    \* data/knowledge_bases: the saved knowledge bases
    embeddings,         \* data/embeddings: index file name -> the rules saved in it
    embedding_service,  \* the EmbeddingService of the evaluation engine and of the ingestion service
    indexed,            \* the knowledge bases (version, locale) whose rules index_rules has indexed
    job,                \* the evaluation in progress, or the last one
    workers             \* the override requests in progress in worker processes

vars == <<evaluations, feedback, response, served, knowledge_bases, embeddings,
          embedding_service, indexed, job, workers>>

MaxJobs == 1

\* uuid4 job ids, fresh per evaluation
JobId(n) == "job" \o CharAt(Digits, n + 1)

SeqsUpTo(S, n) == UNION {[1..k -> S] : k \in 0..n}

\* no call of an assessor made
NoAnswer == [kind |-> "none", findings |-> <<>>]

\* no evaluation in progress
NoJob ==
    [ phase |-> "Idle", phases |-> <<>>, job_id |-> "None", request |-> "None", kb |-> <<>>,
      checks |-> <<>>, mechanical |-> <<>>, quality_answer |-> NoAnswer, quality |-> <<>>,
      candidate_rules |-> <<>>, index_absent |-> FALSE,
      compliance_answer |-> NoAnswer, compliance |-> <<>>, report |-> <<>>, failure |-> "None" ]

TypeOK ==
    /\ DOMAIN evaluations \subseteq {JobId(n) : n \in 1..9}
    /\ \A i \in 1..Len(feedback) : feedback[i].action \in FeedbackAction
    /\ response \in {"none", "ok", "error"}
    /\ served \in [evaluate : Nat, override : Nat]
    /\ \A kb \in knowledge_bases : Len(kb.rules) = Len(RawRules)
    /\ "engine" \in DOMAIN embedding_service /\ "ingestion" \in DOMAIN embedding_service

\* The application with one knowledge base ingested and indexed, before the
\* first evaluation.
Init ==
    /\ evaluations = <<>>
    /\ feedback = <<>>
    /\ response = "none"
    /\ served = [evaluate |-> 0, override |-> 0]
    /\ knowledge_bases = KnowledgeBases
    /\ embeddings = (IndexFile("None", "None") :> KB.rules)
                    @@ (IndexFile(KB.kb_version, KB.locale) :> KB.rules)
    /\ embedding_service =
          [ engine |-> EmbeddingService,
            ingestion |-> [EmbeddingService EXCEPT !.rule_index = KB.rules] ]
    /\ indexed = {<<KB.kb_version, KB.locale>>}
    /\ job = NoJob
    /\ workers = <<>>

\* POST /api/evaluate, when the calls to the two assessors succeed and
\* return well-formed findings, for the given requests and assessor answers
EvaluateOf(requests, quality_answers, compliance_answers) ==
    /\ \E request \in requests,
          quality_findings \in quality_answers,
          embeddings_ok \in BOOLEAN,
          llm_findings \in compliance_answers :
        LET job_id == JobId(Cardinality(DOMAIN evaluations) + 1)
            loaded == _load_knowledge_base(knowledge_bases, request.locale, request.kb_version)
            kb == loaded[1]
            search == hybrid_search(embedding_service.engine, embeddings, 20, request.locale,
                                    kb.kb_version, embeddings_ok)
        IN /\ Len(loaded) > 0
           /\ evaluations' = evaluations @@ (job_id :>
                  evaluate(job_id, request.source_text, request.target_text, request.locale,
                           kb, quality_findings, search.results, llm_findings))
           /\ embedding_service' = [embedding_service EXCEPT !.engine = search.service]
    /\ response' = "ok"
    /\ served' = [served EXCEPT !.evaluate = @ + 1]
    /\ UNCHANGED <<feedback, knowledge_bases, embeddings, indexed, job, workers>>

Evaluate ==
    /\ Cardinality(DOMAIN evaluations) < MaxJobs
    /\ EvaluateOf(EvaluationRequests, SeqsUpTo(QualityItems, MaxQuality),
                  SeqsUpTo(ComplianceItems, MaxCompliance))

\* the identifiers a reviewer may name: those of the saved findings and
\* one that no finding carries
FindingIds ==
    UNION { UNION { {evaluations[file].findings[i].segment_id, evaluations[file].findings[i].rule_id}
                    : i \in 1..Len(evaluations[file].findings) }
            : file \in DOMAIN evaluations }
    \cup {"seg_unknown"}

OverrideRequests ==
    [ finding_id : FindingIds, action : {"change_severity"}, new_severity : Severity \cup {"None"} ]
    \cup [ finding_id : FindingIds, action : FeedbackAction \ {"change_severity"}, new_severity : {"None"} ]

\* faulty variant: the feedback event is saved only when the override
\* changed the score
override_finding_EventOnChange(evals, events, request, file) ==
    IF file = "None"
    THEN [evaluations |-> evals, feedback |-> events, response |-> "error"]
    ELSE LET done == process_override(evals[file], request, Len(events) + 1)
         IN [ evaluations |-> [evals EXCEPT ![file] = done.evaluation],
              feedback    |-> IF done.evaluation.final_score # evals[file].final_score
                              THEN Append(events, done.feedback_event) ELSE events,
              response    |-> "ok" ]

\* faulty variant: the feedback event is saved although no finding was found
override_finding_EventOnMiss(evals, events, request, file) ==
    IF file = "None"
    THEN [ evaluations |-> evals,
           feedback    |-> Append(events,
                              [ event_id |-> Len(events) + 1, segment_id |-> request.finding_id,
                                rule_id |-> "unknown", action |-> request.action,
                                old_value |-> "Unknown", new_value |-> "Unknown" ]),
           response    |-> "error" ]
    ELSE LET done == process_override(evals[file], request, Len(events) + 1)
         IN [ evaluations |-> [evals EXCEPT ![file] = done.evaluation],
              feedback    |-> Append(events, done.feedback_event),
              response    |-> "ok" ]

\* the route override_finding: the files and the answer after
\* process_override ran on the evaluation file found, or raised because
\* there is none ("None")
override_finding(evals, events, request, file) ==
    IF file = "None"
    THEN [evaluations |-> evals, feedback |-> events, response |-> "error"]
    ELSE LET done == process_override(evals[file], request, Len(events) + 1)
         IN [ evaluations |-> [evals EXCEPT ![file] = done.evaluation],
              feedback    |-> Append(events, done.feedback_event),
              response    |-> "ok" ]

\* _find_evaluation_by_finding: the files it may return, in the order of
\* os.listdir
FoundFiles(evals, finding_id) ==
    IF FilesWithFinding(evals, finding_id) = {} THEN {"None"}
    ELSE FilesWithFinding(evals, finding_id)

\* POST /api/review/override
Override ==
    /\ served.override < MaxOverrides
    /\ \E request \in OverrideRequests :
         \E file \in FoundFiles(evaluations, request.finding_id) :
            LET done == override_finding(evaluations, feedback, request, file)
            IN /\ evaluations' = done.evaluations
               /\ feedback' = done.feedback
               /\ response' = done.response
    /\ served' = [served EXCEPT !.override = @ + 1]
    /\ UNCHANGED <<knowledge_bases, embeddings, embedding_service, indexed, job, workers>>

Next == Evaluate \/ Override

Spec == Init /\ [][Next]_vars

(***************************************************************************)
(* Overrides served by several server processes over one data directory.   *)
(* process_override reads the evaluation file (line 23), works on its copy *)
(* and writes the file back (line 81) without a lock or a version check,   *)
(* so the read and the write of one process are separate steps for the     *)
(* others.                                                                 *)
(***************************************************************************)
MaxWorkers == 2
MaxRaceQuality == 1

IdleWorker == [pc |-> "idle", request |-> "None", file |-> "None", evaluation |-> <<>>]

InitRace ==
    /\ evaluations = <<>>
    /\ feedback = <<>>
    /\ response = "none"
    /\ served = [evaluate |-> 0, override |-> 0]
    /\ knowledge_bases = KnowledgeBases
    /\ embeddings = (IndexFile("None", "None") :> KB.rules)
                    @@ (IndexFile(KB.kb_version, KB.locale) :> KB.rules)
    /\ embedding_service =
          [ engine |-> EmbeddingService,
            ingestion |-> [EmbeddingService EXCEPT !.rule_index = KB.rules] ]
    /\ indexed = {<<KB.kb_version, KB.locale>>}
    /\ job = NoJob
    /\ workers = [w \in 1..MaxWorkers |-> IdleWorker]

\* the evaluation the overrides will work on
RaceEvaluate ==
    /\ \A w \in DOMAIN workers : workers[w].pc = "idle"
    /\ Cardinality(DOMAIN evaluations) < MaxJobs
    /\ EvaluateOf(EvaluationRequests, SeqsUpTo(QualityItems, MaxRaceQuality), {<<>>})

\* process_override up to line 25: the evaluation file found is read, or
\* the request fails because there is none
OverrideRead(w) ==
    /\ workers[w].pc = "idle"
    /\ DOMAIN evaluations # {}
    /\ \E request \in OverrideRequests :
         \E file \in FoundFiles(evaluations, request.finding_id) :
            IF file = "None"
            THEN /\ workers' = [workers EXCEPT ![w] = [@ EXCEPT !.pc = "failed", !.request = request]]
                 /\ response' = "error"
                 /\ served' = [served EXCEPT !.override = @ + 1]
            ELSE /\ workers' = [workers EXCEPT ![w] =
                        [pc |-> "loaded", request |-> request, file |-> file,
                         evaluation |-> evaluations[file]]]
                 /\ UNCHANGED <<response, served>>
    /\ UNCHANGED <<evaluations, feedback, knowledge_bases, embeddings, embedding_service, indexed, job>>

\* process_override from line 27: the copy is changed and rescored, the
\* evaluation file is overwritten with it and the feedback event is saved
OverrideWrite(w) ==
    /\ workers[w].pc = "loaded"
    /\ LET done == process_override(workers[w].evaluation, workers[w].request, Len(feedback) + 1)
       IN /\ evaluations' = [evaluations EXCEPT ![workers[w].file] = done.evaluation]
          /\ feedback' = Append(feedback, done.feedback_event)
    /\ workers' = [workers EXCEPT ![w] = [@ EXCEPT !.pc = "done"]]
    /\ response' = "ok"
    /\ served' = [served EXCEPT !.override = @ + 1]
    /\ UNCHANGED <<knowledge_bases, embeddings, embedding_service, indexed, job>>

NextRace ==
    \/ RaceEvaluate
    \/ \E w \in 1..MaxWorkers : OverrideRead(w)
    \/ \E w \in 1..MaxWorkers : OverrideWrite(w)

SpecRace == InitRace /\ [][NextRace]_vars

(***************************************************************************)
(* The evaluation pipeline phase by phase, over a data directory that      *)
(* starts empty, with document ingestion and index construction.           *)
(***************************************************************************)
MaxPipelineJobs == 2
MaxAnswerLen == 2

\* kb_version = datetime.now().strftime("%Y.%m.%d-%H%M") of the n-th ingestion
KbVersion(n) == "2025.01.0" \o CharAt(Digits, n + 1) \o "-0000"

\* the requests of the pipeline: a locale with and without a knowledge
\* base, with and without a version
PipelineRequests ==
    { [source_text |-> "Hi!", target_text |-> "nh!", locale |-> l, kb_version |-> v] :
        l \in {KbLocale}, v \in {"None"} \cup {KbVersion(n) : n \in 1..MaxIngests} }
    \cup { [source_text |-> "Hi!", target_text |-> "nh!", locale |-> "fr-FR", kb_version |-> "None"] }

\* What the chat completion call of an assessor may give: an exception
\* ("error": unreachable, timeout, status other than 200), content that is
\* no JSON ("text"), or JSON with a list of findings ("json") whose entries
\* may lack a field or carry a severity outside the enumeration.
QualityEntries ==
    { [issue_type |-> "grammar_error", severity |-> "Major"],
      [issue_type |-> "grammar_error"],
      [severity |-> "Major"],
      [issue_type |-> "grammar_error", severity |-> "Blocker"] }

ComplianceEntries ==
    { [rule_id |-> KB.rules[3].rule_id, severity |-> "Major"],
      [rule_id |-> "ZH-CN-999-FFFFFFFF", severity |-> "Major"],
      [rule_id |-> "ZH-CN-999-FFFFFFFF", severity |-> "Blocker"],
      [severity |-> "Major"],
      [rule_id |-> KB.rules[3].rule_id],
      [rule_id |-> KB.rules[3].rule_id, severity |-> "Blocker"] }

AssessorAnswers(entries) ==
    { [kind |-> "error", findings |-> <<>>], [kind |-> "text", findings |-> <<>>] }
    \cup { [kind |-> "json", findings |-> fs] : fs \in SeqsUpTo(entries, MaxAnswerLen) }

\* LMStudioClient.evaluate_translation_quality and evaluate_translation:
\* chat_completion raises, or the content is parsed, a JSONDecodeError
\* giving the empty list
ParsedFindings(answer) ==
    [ raised   |-> IF answer.kind = "error" THEN "ExternalServiceError" ELSE "None",
      findings |-> IF answer.kind = "json" THEN answer.findings ELSE <<>> ]

\* the exception the conversion of a quality finding raises, if any
QualityEntryError(quality_finding) ==
    IF "issue_type" \notin DOMAIN quality_finding THEN "KeyError"
    ELSE IF "severity" \notin DOMAIN quality_finding THEN "KeyError"
    ELSE IF quality_finding.severity \notin Severity THEN "ValueError"
    ELSE "None"

\* the exception the conversion of a compliance finding raises, if any
ComplianceEntryError(llm_finding, candidate_rules) ==
    IF "rule_id" \notin DOMAIN llm_finding THEN "KeyError"
    ELSE IF \A k \in 1..Len(candidate_rules) : candidate_rules[k].rule_id # llm_finding.rule_id
    THEN "None"
    ELSE IF "severity" \notin DOMAIN llm_finding THEN "KeyError"
    ELSE IF llm_finding.severity \notin Severity THEN "ValueError"
    ELSE "None"

\* the first exception of a conversion loop
FirstError(errors) ==
    LET i == FirstIndex({k \in 1..Len(errors) : errors[k] # "None"})
    IN IF i = 0 THEN "None" ELSE errors[i]

\* step 2 of evaluate: the call of the quality assessor and the conversion
\* of its findings
QualityPhase(job_id, answer) ==
    LET parsed == ParsedFindings(answer)
        error == FirstError([k \in 1..Len(parsed.findings) |-> QualityEntryError(parsed.findings[k])])
    IN IF parsed.raised # "None" THEN [raised |-> parsed.raised, findings |-> <<>>]
       ELSE IF error # "None" THEN [raised |-> error, findings |-> <<>>]
       ELSE [raised |-> "None", findings |-> QualityFindings(job_id, parsed.findings)]

\* step 4 of evaluate: skipped without candidates, else the call of the
\* rule-compliance assessor and the conversion of its findings
CompliancePhase(job_id, answer, candidate_rules) ==
    LET parsed == ParsedFindings(answer)
        error == FirstError([k \in 1..Len(parsed.findings) |->
                                ComplianceEntryError(parsed.findings[k], candidate_rules)])
    IN IF Len(candidate_rules) = 0 THEN [raised |-> "None", findings |-> <<>>]
       ELSE IF parsed.raised # "None" THEN [raised |-> parsed.raised, findings |-> <<>>]
       ELSE IF error # "None" THEN [raised |-> error, findings |-> <<>>]
       ELSE [raised |-> "None", findings |-> ComplianceFindings(job_id, parsed.findings, candidate_rules)]

PhaseOrder ==
    <<"Started", "MechanicalChecked", "QualityAssessed", "RetrievalDone",
      "ComplianceAssessed", "Scored", "Persisted">>

\* the job after the step that ends with the given phase
Advance(j, phase) == [j EXCEPT !.phase = phase, !.phases = Append(@, phase)]

\* the job after an exception left evaluate
Abort(j, failure) ==
    [j EXCEPT !.phase = "Failed", !.phases = Append(@, "Failed"), !.failure = failure]

\* faulty variant: the mechanical findings are left out of the score
all_findings_QualityAndCompliance(j) == j.quality \o j.compliance

\* all_findings of evaluate at step 5
all_findings(j) == j.mechanical \o j.quality \o j.compliance

\* faulty variant: evaluate goes on with an empty knowledge base
StartedJob_WithoutKb(job_id, request, loaded) ==
    [NoJob EXCEPT !.phase = "Started", !.phases = <<"Started">>, !.job_id = job_id,
                  !.request = request,
                  !.kb = IF Len(loaded) = 0
                         THEN [kb_version |-> "None", locale |-> request.locale, rules |-> <<>>]
                         ELSE loaded[1]]

\* evaluate up to line 49: the job with its knowledge base, or the
\* exception when there is none
StartedJob(job_id, request, loaded) ==
    LET started == [NoJob EXCEPT !.phase = "Started", !.phases = <<"Started">>,
                                 !.job_id = job_id, !.request = request]
    IN IF Len(loaded) = 0 THEN Abort(started, "NoKnowledgeBase")
       ELSE [started EXCEPT !.kb = loaded[1]]

InitPipeline ==
    /\ evaluations = <<>>
    /\ feedback = <<>>
    /\ response = "none"
    /\ served = [evaluate |-> 0, override |-> 0]
    /\ knowledge_bases = {}
    /\ embeddings = <<>>
    /\ embedding_service = [engine |-> EmbeddingService, ingestion |-> EmbeddingService]
    /\ indexed = {}
    /\ job = NoJob
    /\ workers = <<>>

\* the knowledge bases the ingestions of the model create
IngestedKnowledgeBases ==
    { [kb_version |-> KbVersion(n), locale |-> KbLocale, rules |-> IngestedRules[n]] :
        n \in 1..MaxIngests }

\* run_all_checks on the texts of the pipeline requests, computed once per
\* knowledge base
PipelineFindings ==
    [kb_version \in {kb.kb_version : kb \in IngestedKnowledgeBases} |->
        LET kb == CHOOSE kb \in IngestedKnowledgeBases : kb.kb_version = kb_version
        IN run_all_checks("Hi!", "nh!", KbLocale, kb.rules)]

\* POST /api/upload-document: ingest_document saves the knowledge base and
\* then indexes its rules
Ingest ==
    /\ Cardinality(knowledge_bases) < MaxIngests
    /\ \E embeddings_ok \in BOOLEAN :
        LET n == Cardinality(knowledge_bases) + 1
            kb == [kb_version |-> KbVersion(n), locale |-> KbLocale, rules |-> IngestedRules[n]]
            done == index_rules(embedding_service.ingestion, embeddings, kb.rules,
                                "None", "None", embeddings_ok)
        IN /\ knowledge_bases' = knowledge_bases \cup {kb}
           /\ embeddings' = done.index_dir
           /\ embedding_service' = [embedding_service EXCEPT !.ingestion = done.service]
           /\ indexed' = IF done.raised THEN indexed
                         ELSE indexed \cup {<<kb.kb_version, kb.locale>>}
    /\ UNCHANGED <<evaluations, feedback, response, served, job, workers>>

\* index_rules called on an EmbeddingService of its own with the version
\* and the locale of a saved knowledge base
IndexRules ==
    /\ \E kb \in knowledge_bases :
        LET done == index_rules(EmbeddingService, embeddings, kb.rules, kb.kb_version,
                                kb.locale, TRUE)
        IN /\ IndexFile(kb.kb_version, kb.locale) \notin DOMAIN embeddings
           /\ embeddings' = done.index_dir
           /\ indexed' = indexed \cup {<<kb.kb_version, kb.locale>>}
    /\ UNCHANGED <<evaluations, feedback, response, served, knowledge_bases,
                   embedding_service, job, workers>>

jobFrame == <<evaluations, feedback, knowledge_bases, embeddings, embedding_service,
              indexed, workers>>

\* evaluate, lines 43-49
StartJob ==
    /\ job.phase \in {"Idle", "Persisted", "Failed"}
    /\ served.evaluate < MaxPipelineJobs
    /\ \E request \in PipelineRequests :
        job' = StartedJob(JobId(served.evaluate + 1), request,
                          _load_knowledge_base(knowledge_bases, request.locale, request.kb_version))
    /\ response' = IF job'.phase = "Failed" THEN "error" ELSE response
    /\ served' = IF job'.phase = "Failed" THEN [served EXCEPT !.evaluate = @ + 1] ELSE served
    /\ UNCHANGED jobFrame

\* evaluate, lines 53-58
MechanicalCheck ==
    /\ job.phase = "Started"
    /\ job' = Advance([job EXCEPT !.mechanical =
                          IF job.request \in PipelineRequests /\ job.kb \in IngestedKnowledgeBases
                          THEN PipelineFindings[job.kb.kb_version]
                          ELSE run_all_checks(job.request.source_text, job.request.target_text,
                                              job.request.locale, job.kb.rules)],
                      "MechanicalChecked")
    /\ UNCHANGED <<response, served>>
    /\ UNCHANGED jobFrame

\* evaluate, lines 61-110
QualityAssess ==
    /\ job.phase = "MechanicalChecked"
    /\ \E answer \in AssessorAnswers(QualityEntries) :
        LET done == QualityPhase(job.job_id, answer)
            called == [job EXCEPT !.quality_answer = answer]
        IN job' = IF done.raised # "None" THEN Abort(called, done.raised)
                  ELSE Advance([called EXCEPT !.quality = done.findings], "QualityAssessed")
    /\ response' = IF job'.phase = "Failed" THEN "error" ELSE response
    /\ served' = IF job'.phase = "Failed" THEN [served EXCEPT !.evaluate = @ + 1] ELSE served
    /\ UNCHANGED jobFrame

\* evaluate, lines 112-121
Retrieve ==
    /\ job.phase = "QualityAssessed"
    /\ \E embeddings_ok \in BOOLEAN :
        LET search == hybrid_search(embedding_service.engine, embeddings, 20,
                                    job.request.locale, job.kb.kb_version, embeddings_ok)
        IN /\ job' = Advance([job EXCEPT !.candidate_rules = search.results,
                                         !.index_absent =
                                            IndexFile(job.kb.kb_version, job.request.locale)
                                                \notin DOMAIN embeddings],
                             "RetrievalDone")
           /\ embedding_service' = [embedding_service EXCEPT !.engine = search.service]
    /\ UNCHANGED <<evaluations, feedback, response, served, knowledge_bases, embeddings,
                   indexed, workers>>

\* evaluate, lines 123-162
ComplianceAssess ==
    /\ job.phase = "RetrievalDone"
    /\ \E answer \in IF Len(job.candidate_rules) = 0 THEN {NoAnswer}
                      ELSE AssessorAnswers(ComplianceEntries) :
        LET done == CompliancePhase(job.job_id, answer, job.candidate_rules)
            called == [job EXCEPT !.compliance_answer = answer]
        IN job' = IF done.raised # "None" THEN Abort(called, done.raised)
                  ELSE Advance([called EXCEPT !.compliance = done.findings], "ComplianceAssessed")
    /\ response' = IF job'.phase = "Failed" THEN "error" ELSE response
    /\ served' = IF job'.phase = "Failed" THEN [served EXCEPT !.evaluate = @ + 1] ELSE served
    /\ UNCHANGED jobFrame

\* evaluate, lines 164-172
Score ==
    /\ job.phase = "ComplianceAssessed"
    /\ job' = Advance([job EXCEPT !.report =
                          _calculate_score(job.job_id, all_findings(job), job.kb,
                                           job.request.locale)],
                      "Scored")
    /\ UNCHANGED <<response, served>>
    /\ UNCHANGED jobFrame

\* evaluate, lines 174-178, and the answer of the route
Persist ==
    /\ job.phase = "Scored"
    /\ job' = Advance(job, "Persisted")
    /\ evaluations' = evaluations @@ (job.job_id :> job.report)
    /\ response' = "ok"
    /\ served' = [served EXCEPT !.evaluate = @ + 1]
    /\ UNCHANGED <<feedback, knowledge_bases, embeddings, embedding_service, indexed, workers>>

NextPipeline ==
    \/ Ingest
    \/ IndexRules
    \/ StartJob
    \/ MechanicalCheck
    \/ QualityAssess
    \/ Retrieve
    \/ ComplianceAssess
    \/ Score
    \/ Persist

SpecPipeline == InitPipeline /\ [][NextPipeline]_vars

(***************************************************************************)
(* The mechanical checks one by one: run_all_checks on sample texts and    *)
(* rule sets, each check a step that extends the finding list.             *)
(***************************************************************************)
\* rules the language model may extract from a style guide
SampleRawRules ==
    << [rule_text |-> "Use full-width ~ not half-width !", severity_cue |-> "should",
        regex_candidate |-> FALSE, uuid8 |-> "1a2b3c4d"],
       [rule_text |-> "Use full-width ~ not half-width !", severity_cue |-> "must",
        regex_candidate |-> FALSE, uuid8 |-> "2b3c4d5e"],
       [rule_text |-> "Use Chinese punctuation marks", severity_cue |-> "should",
        regex_candidate |-> FALSE, uuid8 |-> "3c4d5e6f"],
       [rule_text |-> "Keep every placeholder, tag and line break unchanged", severity_cue |-> "must",
        regex_candidate |-> FALSE, uuid8 |-> "5e6f7a8b"],
       [rule_text |-> "No half-width exclamation mark", severity_cue |-> "never",
        regex_candidate |-> TRUE, uuid8 |-> "4d5e6f7a"],
       [rule_text |-> "Write every date as yyyy@ format", severity_cue |-> "should",
        regex_candidate |-> TRUE, uuid8 |-> "7e8f9a0b"],
       [rule_text |-> "Avoid a casual tone", severity_cue |-> "avoid",
        regex_candidate |-> TRUE, uuid8 |-> "6f7a8b9c"] >>

\* The rule lists of the sample knowledge bases of a locale.  The last
\* sample rule carries a pattern written into the knowledge base file that
\* re cannot compile.
SampleRuleSets(locale) ==
    LET r == [i \in 1..Len(SampleRawRules) |-> _process_rule(SampleRawRules[i], locale, i - 1)]
        bad == [r[7] EXCEPT !.regex_pattern = "INVALID"]
    IN { <<r[1]>>,
         <<r[2], r[4]>>,
         <<r[3], r[5], bad, r[6]>>,
         <<r[1], r[4], bad, r[6], r[5]>>,
         <<bad>> }

\* source and target texts of the sample requests
SampleTexts ==
    { <<"Hi!", "nh!">>,
      <<"Hello {name}!", "nh~">>,
      <<"On 2024-1-5\n\n\n", "2024-1-5 nh!!">>,
      <<"Hi {a} %s", "nh {b} %s">>,
      <<"{a} and {a}", "{a}">> }

SampleLocales == {"zh-CN", "ja-JP"}

\* run_all_checks entered: the request and the rules of its knowledge base
InitValidators ==
    /\ evaluations = <<>>
    /\ feedback = <<>>
    /\ response = "none"
    /\ served = [evaluate |-> 0, override |-> 0]
    /\ embeddings = <<>>
    /\ embedding_service = [engine |-> EmbeddingService, ingestion |-> EmbeddingService]
    /\ indexed = {}
    /\ workers = <<>>
    /\ \E texts \in SampleTexts, locale \in SampleLocales :
         \E rules \in SampleRuleSets(locale) :
           LET kb == [kb_version |-> KbVersion(1), locale |-> locale, rules |-> rules]
               request == [source_text |-> texts[1], target_text |-> texts[2],
                           locale |-> locale, kb_version |-> "None"]
           IN /\ knowledge_bases = {kb}
              /\ job = StartedJob(JobId(1), request, <<kb>>)

\* findings.extend(...) of run_all_checks after one check
Checked(j, found, phase) ==
    Advance([j EXCEPT !.checks = Append(@, found), !.mechanical = @ \o found], phase)

validatorFrame == <<evaluations, feedback, response, served, knowledge_bases, embeddings,
                    embedding_service, indexed, workers>>

\* run_all_checks, line 54
CheckPunctuationWidth ==
    /\ job.phase = "Started"
    /\ job' = Checked(job, _check_punctuation_width(job.request.source_text, job.request.target_text,
                               job.request.locale, DeterministicSegmentId(job.request.target_text),
                               job.kb.rules),
                      "PunctuationChecked")
    /\ UNCHANGED validatorFrame

\* run_all_checks, line 55
CheckPlaceholders ==
    /\ job.phase = "PunctuationChecked"
    /\ job' = Checked(job, _check_placeholders(job.request.source_text, job.request.target_text,
                               job.request.locale, DeterministicSegmentId(job.request.target_text),
                               job.kb.rules),
                      "PlaceholdersChecked")
    /\ UNCHANGED validatorFrame

\* run_all_checks, line 56
CheckDateFormat ==
    /\ job.phase = "PlaceholdersChecked"
    /\ job' = Checked(job, _check_date_format(job.request.source_text, job.request.target_text,
                               job.request.locale, DeterministicSegmentId(job.request.target_text),
                               job.kb.rules),
                      "DatesChecked")
    /\ UNCHANGED validatorFrame

\* run_all_checks, line 57
CheckLineBreaks ==
    /\ job.phase = "DatesChecked"
    /\ job' = Checked(job, _check_line_breaks(job.request.source_text, job.request.target_text,
                               job.request.locale, DeterministicSegmentId(job.request.target_text),
                               job.kb.rules),
                      "LineBreaksChecked")
    /\ UNCHANGED validatorFrame

\* run_all_checks, line 51: the rules handed to _check_regex_rules
RegexReadyRules(rules) ==
    LET IsRegex(rule) == rule.regex_ready /\ rule.regex_pattern # "None"
    IN SelectSeq(rules, IsRegex)

\* run_all_checks, lines 58-60: the last check and the return
CheckRegexRules ==
    /\ job.phase = "LineBreaksChecked"
    /\ job' = Checked(job, _check_regex_rules(job.request.source_text, job.request.target_text,
                               job.request.locale, DeterministicSegmentId(job.request.target_text),
                               RegexReadyRules(job.kb.rules)),
                      "MechanicalChecked")
    /\ UNCHANGED validatorFrame

NextValidators ==
    \/ CheckPunctuationWidth
    \/ CheckPlaceholders
    \/ CheckDateFormat
    \/ CheckLineBreaks
    \/ CheckRegexRules

SpecValidators == InitValidators /\ [][NextValidators]_vars

(***************************************************************************)
(* Review of several evaluations: the overrides of a reviewer on a data    *)
(* directory that holds more than one evaluation record.                   *)
(***************************************************************************)
MaxReviewJobs == 2

\* the requests and the assessor answers of the reviewed evaluations
ReviewRequests ==
    {request \in EvaluationRequests : request.target_text \in {"nh!", "2024-1-5 nh!!"}}

ReviewQualityAnswers == {<<>>, <<[issue_type |-> "grammar_error", severity |-> "Major"]>>}

ReviewComplianceAnswers == {<<>>, <<[rule_id |-> KB.rules[3].rule_id, severity |-> "Minor"]>>}

\* POST /api/evaluate
ReviewEvaluate ==
    /\ Cardinality(DOMAIN evaluations) < MaxReviewJobs
    /\ EvaluateOf(ReviewRequests, ReviewQualityAnswers, ReviewComplianceAnswers)

NextReview == ReviewEvaluate \/ Override

SpecReview == Init /\ [][NextReview]_vars

(***************************************************************************)
(* Vocabulary of the properties.                                           *)
(***************************************************************************)
Files == DOMAIN evaluations

RECURSIVE SumPenalties(_)
SumPenalties(findings) ==
    IF Len(findings) = 0 THEN 0 ELSE Head(findings).penalty + SumPenalties(Tail(findings))

NotDismissed(f) == ~f.dismissed
Live(findings) == SelectSeq(findings, NotDismissed)

\* the category a saved evaluation reports a finding under: the one of the
\* aggregation that wrote the record
ReportedClass(evaluation, f) ==
    IF evaluation.last_updated THEN ReviewMacroClass[f.rule_id] ELSE EngineMacroClass(f, KB)

CappedClasses == {"Style", "Punctuation"}

\* the live findings of a saved evaluation inside / outside the capped
\* categories
CappedFindings(evaluation) ==
    LET In(f) == ReportedClass(evaluation, f) \in CappedClasses
    IN SelectSeq(Live(evaluation.findings), In)

OtherFindings(evaluation) ==
    LET Out(f) == ReportedClass(evaluation, f) \notin CappedClasses
    IN SelectSeq(Live(evaluation.findings), Out)

\* the sum of the penalties of a breakdown
BreakdownPenalty(by_macro) ==
    PenaltyOf(by_macro, "Terminology") + PenaltyOf(by_macro, "Punctuation")
    + PenaltyOf(by_macro, "Mechanics") + PenaltyOf(by_macro, "Standards")
    + PenaltyOf(by_macro, "Style") + PenaltyOf(by_macro, "Accuracy")
    + PenaltyOf(by_macro, "Legal")

CountOf(by_macro, macro_class) ==
    IF macro_class \in DOMAIN by_macro THEN by_macro[macro_class].count ELSE 0

\* a step that is a successful override with the given action
OverrideStep(action) ==
    /\ Len(feedback') = Len(feedback) + 1
    /\ feedback'[Len(feedback')].action = action

LastEvent == feedback[Len(feedback)]

\* the finding an override acted on: the first one that carries the
\* segment id and the rule id its feedback event recorded
IsTarget(f, event) == f.segment_id = event.segment_id /\ f.rule_id = event.rule_id

HasTarget(findings, event) == \E i \in 1..Len(findings) : IsTarget(findings[i], event)

Target(findings, event) ==
    CHOOSE i \in 1..Len(findings) :
        /\ IsTarget(findings[i], event)
        /\ \A j \in 1..(i - 1) : ~IsTarget(findings[j], event)

\* the base weight a finding was created with: the flat weight of the
\* quality findings, the default weight of the rule for the others
CreatedBaseWeight(f) ==
    IF StartsWith(f.rule_id, "QUALITY_") THEN 15
    ELSE LET k == CHOOSE k \in 1..Len(KB.rules) : KB.rules[k].rule_id = f.rule_id
         IN KB.rules[k].default_weight

RuleIds(findings) == [k \in 1..Len(findings) |-> findings[k].rule_id]

(***************************************************************************)
(* C1.  In every saved evaluation, written by evaluate or rewritten by an  *)
(* override, the Style and Punctuation findings together lower final_score *)
(* by at most the cap: the score is at least 100 minus the penalties of    *)
(* the findings of the other categories minus 30.                          *)
(***************************************************************************)
C1_CapBoundsStylePunctuation ==
    \A file \in Files :
        LET r == evaluations[file] IN
        r.final_score >= Max(0, 100 - (SumPenalties(OtherFindings(r)) + STYLE_PUNCTUATION_CAP))

\* an override has recomputed a record whose Style and Punctuation findings
\* carry more than the cap, and the score shows exactly the cap
C1_Witness ==
    \E file \in Files :
        LET r == evaluations[file] IN
        /\ r.last_updated
        /\ SumPenalties(CappedFindings(r)) > STYLE_PUNCTUATION_CAP
        /\ r.final_score > 0
        /\ r.final_score = 100 - (SumPenalties(OtherFindings(r)) + STYLE_PUNCTUATION_CAP)

(***************************************************************************)
(* C2.  In every saved evaluation the penalties of by_macro add up to the  *)
(* total penalty that final_score was computed from.                       *)
(***************************************************************************)
C2_BreakdownSumsToTotal ==
    \A file \in Files :
        LET r == evaluations[file] IN
        r.final_score = Max(0, 100 - BreakdownPenalty(r.by_macro))

(***************************************************************************)
(* C3.  In every saved evaluation, after evaluate and after any overrides, *)
(* final_score is an integer between 0 and 100.                            *)
(***************************************************************************)
C3_ScoreInRange ==
    \A file \in Files : evaluations[file].final_score \in 0..100

\* an override has recomputed a record whose penalties exceed 100
C3_Witness ==
    \E file \in Files :
        LET r == evaluations[file] IN
        /\ r.last_updated
        /\ SumPenalties(OtherFindings(r))
             + Min(SumPenalties(CappedFindings(r)), STYLE_PUNCTUATION_CAP) > 100
        /\ r.final_score = 0

(***************************************************************************)
(* C4.  The recomputation of the review service is the score calculation   *)
(* of the evaluation engine: on every saved finding list without dismissed *)
(* findings both give the same final_score and the same by_macro.          *)
(***************************************************************************)
C4_SameAggregation ==
    \A file \in Files :
        LET r == evaluations[file]
            engine == _calculate_score(r.job_id, r.findings, KB, r.locale)
            review == _recalculate_score(r)
        IN (\A i \in 1..Len(r.findings) : ~r.findings[i].dismissed)
           => /\ review.final_score = engine.final_score
              /\ review.by_macro = engine.by_macro

(***************************************************************************)
(* C5.  After a successful override final_score and by_macro are both      *)
(* regenerated from the whole current finding list: the score is           *)
(* max(0, 100 - capped sum of the penalties of the findings not dismissed) *)
(* and by_macro counts exactly the findings not dismissed; no override     *)
(* rewrites one of the two fields and leaves the other.                    *)
(***************************************************************************)
C5_RegeneratedTogether ==
    /\ [](\A file \in Files :
            LET r == evaluations[file]
                capped == SumPenalties(CappedFindings(r))
                total == SumPenalties(Live(r.findings))
                         - Max(0, capped - STYLE_PUNCTUATION_CAP)
            IN r.last_updated =>
                 /\ r.final_score = Max(0, 100 - total)
                 /\ \A macro_class \in MacroClass :
                        LET Is(f) == ReviewMacroClass[f.rule_id] = macro_class
                        IN CountOf(r.by_macro, macro_class)
                             = Len(SelectSeq(Live(r.findings), Is)))
    /\ [][\A file \in Files :
            (\E action \in FeedbackAction : OverrideStep(action))
            /\ evaluations'[file] # evaluations[file]
            => evaluations'[file].last_updated]_vars

\* an override has dismissed one of several findings of a record and the
\* record shows the regenerated score and breakdown
C5_Witness ==
    \E file \in Files :
        LET r == evaluations[file] IN
        /\ r.last_updated
        /\ Len(Live(r.findings)) >= 2
        /\ Len(Live(r.findings)) < Len(r.findings)
        /\ r.final_score \in 1..99

(***************************************************************************)
(* C6.  Dismissing a finding never lowers the final_score of the record.   *)
(***************************************************************************)
C6_DismissNeverLowers ==
    [][OverrideStep("dismiss") =>
         \A file \in Files :
             evaluations'[file].final_score >= evaluations[file].final_score]_vars

\* a first override has dismissed one finding of a record that evaluate
\* wrote with several, and the others still lower the score
C6_Witness ==
    /\ Len(feedback) = 1
    /\ LastEvent.action = "dismiss"
    /\ \E file \in Files :
        LET r == evaluations[file] IN
        /\ \E i \in 1..Len(r.findings) :
               r.findings[i].dismissed /\ r.findings[i].penalty = 0
        /\ Len(Live(r.findings)) >= 1
        /\ r.final_score < 100

(***************************************************************************)
(* C7.  On a record written by evaluate in which neither the cap nor the   *)
(* floor is in play, dismissing a finding of penalty p raises final_score  *)
(* by exactly p.                                                           *)
(***************************************************************************)
C7_DismissRaisesByPenalty ==
    [][OverrideStep("dismiss") =>
         \A file \in Files :
             LET r == evaluations[file]
                 event == feedback'[Len(feedback')]
             IN /\ evaluations'[file] # r
                /\ ~r.last_updated
                /\ SumPenalties(CappedFindings(r)) <= STYLE_PUNCTUATION_CAP
                /\ SumPenalties(r.findings) <= 100
                => evaluations'[file].final_score
                     = r.final_score + r.findings[Target(r.findings, event)].penalty]_vars

(***************************************************************************)
(* C8.  A dismissal sets the penalty of the finding to 0 and its dismissed *)
(* flag, and changes nothing else of the list; the finding stays in the    *)
(* list, stays dismissed with penalty 0 under every later override, and no *)
(* recomputation counts it in by_macro.                                    *)
(***************************************************************************)
C8_DismissedKeptAndExcluded ==
    /\ [](\A file \in Files :
            LET r == evaluations[file] IN
            /\ \A i \in 1..Len(r.findings) :
                   r.findings[i].dismissed => r.findings[i].penalty = 0
            /\ r.last_updated =>
                 \A macro_class \in MacroClass :
                     LET Is(f) == ReviewMacroClass[f.rule_id] = macro_class
                         live == SelectSeq(Live(r.findings), Is)
                     IN IF live = <<>> THEN macro_class \notin DOMAIN r.by_macro
                        ELSE /\ macro_class \in DOMAIN r.by_macro
                             /\ r.by_macro[macro_class].rules_triggered = RuleIds(live)
                             /\ r.by_macro[macro_class].count = Len(live))
    /\ [][\A file \in Files :
            LET r == evaluations[file]
                event == feedback'[Len(feedback')]
            IN /\ Len(evaluations'[file].findings) = Len(r.findings)
               /\ \A i \in 1..Len(r.findings) :
                      r.findings[i].dismissed => evaluations'[file].findings[i].dismissed
               /\ OverrideStep("dismiss") /\ evaluations'[file] # r
                  => evaluations'[file].findings =
                        [r.findings EXCEPT ![Target(r.findings, event)] =
                            [@ EXCEPT !.dismissed = TRUE, !.penalty = 0]]]_vars

\* a finding was dismissed, a later override changed the severity of that
\* same finding, and the record still lists it, dismissed, beside live ones
C8_Witness ==
    /\ Len(feedback) = 2
    /\ feedback[1].action = "dismiss"
    /\ feedback[2].action = "change_severity"
    /\ feedback[2].new_value \in Severity
    /\ IsTarget(feedback[1], feedback[2])
    /\ \E file \in Files :
        LET r == evaluations[file] IN
        /\ HasTarget(r.findings, feedback[1])
        /\ r.findings[Target(r.findings, feedback[1])].dismissed
        /\ Len(Live(r.findings)) >= 1

(***************************************************************************)
(* C9.  Changing the severity of a finding sets its severity to the new    *)
(* one and its penalty to (penalty // multiplier of the old severity)      *)
(* times the multiplier of the new one, and that quotient is the base      *)
(* weight the finding was created with.                                    *)
(***************************************************************************)
C9_ChangeSeverityRecoversBaseWeight ==
    [][OverrideStep("change_severity") /\ feedback'[Len(feedback')].new_value \in Severity =>
         \A file \in Files :
             LET r == evaluations[file]
                 event == feedback'[Len(feedback')]
             IN evaluations'[file] # r /\ ~r.last_updated
                => LET i == Target(r.findings, event)
                       old == r.findings[i]
                       new == evaluations'[file].findings[i]
                       base_weight == old.penalty \div severity_multipliers[old.severity]
                   IN /\ new.severity = event.new_value
                      /\ new.penalty = base_weight * severity_multipliers[event.new_value]
                      /\ base_weight = CreatedBaseWeight(old)]_vars

(***************************************************************************)
(* C10.  Accepting a finding sets its accepted flag and leaves the penalty *)
(* and the severity of every finding of the record as they were.           *)
(***************************************************************************)
C10_AcceptKeepsPenalties ==
    [][OverrideStep("accept") =>
         /\ \E file \in Files :
               LET r == evaluations[file]
                   event == feedback'[Len(feedback')]
               IN /\ HasTarget(r.findings, event)
                  /\ evaluations'[file].findings[Target(r.findings, event)].accepted
         /\ \A file \in Files :
               \A i \in 1..Len(evaluations[file].findings) :
                   /\ evaluations'[file].findings[i].penalty = evaluations[file].findings[i].penalty
                   /\ evaluations'[file].findings[i].severity = evaluations[file].findings[i].severity]_vars

\* an override has accepted a finding that still carries its penalty
C10_Witness ==
    /\ Len(feedback) >= 1
    /\ LastEvent.action = "accept"
    /\ \E file \in Files :
        LET r == evaluations[file] IN
        /\ HasTarget(r.findings, LastEvent)
        /\ r.findings[Target(r.findings, LastEvent)].accepted
        /\ r.findings[Target(r.findings, LastEvent)].penalty > 0
        /\ r.final_score < 100

\* a step that answered an override request with the given result
OverrideAnswered(result) ==
    /\ served'.override = served.override + 1
    /\ response' = result

(***************************************************************************)
(* C11.  An override request that locates its finding appends exactly one  *)
(* feedback event, carrying an action of the request vocabulary, and       *)
(* leaves the earlier events as they were, whatever the action and         *)
(* whether or not the score changed.                                       *)
(***************************************************************************)
C11_OneEventPerOverride ==
    [][OverrideAnswered("ok") =>
         /\ Len(feedback') = Len(feedback) + 1
         /\ SubSeq(feedback', 1, Len(feedback)) = feedback
         /\ feedback'[Len(feedback')].action \in FeedbackAction
         /\ feedback'[Len(feedback')].event_id = Len(feedback')]_vars

\* a finding was dismissed twice: the second override left the score as it
\* was and still added its event
C11_Witness ==
    /\ response = "ok"
    /\ served.override = 2
    /\ Len(feedback) = 2
    /\ feedback[1].action = "dismiss"
    /\ feedback[2].action = "dismiss"
    /\ feedback[1].segment_id = feedback[2].segment_id
    /\ feedback[1].rule_id = feedback[2].rule_id
    /\ feedback[2].old_value = feedback[1].old_value

(***************************************************************************)
(* C12.  An override whose finding_id matches no finding of any saved      *)
(* evaluation is answered with an error, changes no evaluation file and    *)
(* adds no feedback event.                                                 *)
(***************************************************************************)
C12_UnknownFindingChangesNothing ==
    [][OverrideAnswered("error") =>
         /\ evaluations' = evaluations
         /\ feedback' = feedback]_vars

\* an override naming an unknown finding was refused while evaluation files
\* and feedback events existed
C12_Witness ==
    /\ response = "error"
    /\ served.override = 2
    /\ Files # {}
    /\ Len(feedback) = 1
    /\ FilesWithFinding(evaluations, "seg_unknown") = {}

\* the record two overrides leave when the first runs to its end on the
\* record it read and the second then runs on the outcome
Serial(first, second) ==
    process_override(
        process_override(workers[first].evaluation, workers[first].request, 1).evaluation,
        workers[second].request, 2).evaluation

(***************************************************************************)
(* C13.  When two overrides of the same evaluation record have both been   *)
(* answered with success, the saved record is the one that results from    *)
(* applying both, one after the other in some order: no update is lost.    *)
(***************************************************************************)
C13_NoLostUpdate ==
    \A a, b \in DOMAIN workers :
        ( /\ a # b
          /\ workers[a].pc = "done"
          /\ workers[b].pc = "done"
          /\ workers[a].file = workers[b].file )
        => evaluations[workers[a].file] \in {Serial(a, b), Serial(b, a)}

IsPrefix(s, t) == Len(s) <= Len(t) /\ SubSeq(t, 1, Len(s)) = s

InPhases(phase) == \E i \in 1..Len(job.phases) : job.phases[i] = phase

(***************************************************************************)
(* C14.  The phases of an evaluation job are an initial part of Started,   *)
(* MechanicalChecked, QualityAssessed, RetrievalDone, ComplianceAssessed,  *)
(* Scored, Persisted, in that order and none twice (a failed job ends its  *)
(* part with Failed); a phase has produced its output only when it and the *)
(* phases before it are done; the report is scored from the findings of    *)
(* the mechanical, the quality and the compliance phase together; and a    *)
(* record of the job is saved only in phase Persisted, and it is that      *)
(* report.                                                                 *)
(***************************************************************************)
C14_PhasesInOrder ==
    /\ IF job.phase = "Failed"
       THEN /\ job.phases[Len(job.phases)] = "Failed"
            /\ IsPrefix(SubSeq(job.phases, 1, Len(job.phases) - 1), PhaseOrder)
       ELSE /\ IsPrefix(job.phases, PhaseOrder)
            /\ job.phase = (IF job.phases = <<>> THEN "Idle" ELSE job.phases[Len(job.phases)])
    /\ job.mechanical # <<>> => InPhases("MechanicalChecked")
    /\ job.quality # <<>> => InPhases("QualityAssessed")
    /\ job.candidate_rules # <<>> => InPhases("RetrievalDone")
    /\ job.compliance # <<>> => InPhases("ComplianceAssessed")
    /\ job.report # <<>> <=> InPhases("Scored")
    /\ InPhases("Scored") =>
          /\ job.report.findings = job.mechanical \o job.quality \o job.compliance
          /\ job.report = _calculate_score(job.job_id,
                                           job.mechanical \o job.quality \o job.compliance,
                                           job.kb, job.request.locale)
    /\ job.job_id \in DOMAIN evaluations <=> job.phase = "Persisted"
    /\ job.phase = "Persisted" => evaluations[job.job_id] = job.report

\* a job is persisted whose three detection phases each gave a finding
C14_Witness ==
    /\ job.phase = "Persisted"
    /\ job.phases = PhaseOrder
    /\ job.mechanical # <<>>
    /\ job.quality # <<>>
    /\ job.compliance # <<>>
    /\ Len(evaluations[job.job_id].findings) >= 3

(***************************************************************************)
(* C15.  A job whose locale (and version) has no knowledge base fails at   *)
(* its start: no detection phase has run, there is no report, no record    *)
(* of the job is saved and the request is answered with an error.          *)
(***************************************************************************)
C15_NoKnowledgeBaseFailsJob ==
    /\ ( /\ job.phase # "Idle"
         /\ _load_knowledge_base(knowledge_bases, job.request.locale, job.request.kb_version) = <<>> )
       => job.failure = "NoKnowledgeBase"
    /\ job.failure = "NoKnowledgeBase" =>
          /\ job.phases = <<"Started", "Failed">>
          /\ job.mechanical = <<>>
          /\ job.quality_answer = NoAnswer
          /\ job.quality = <<>>
          /\ job.candidate_rules = <<>>
          /\ job.compliance_answer = NoAnswer
          /\ job.compliance = <<>>
          /\ job.report = <<>>
          /\ job.job_id \notin DOMAIN evaluations
          /\ response = "error"

\* a request for a locale without knowledge base has failed while a
\* knowledge base of another locale and the record of an earlier job exist
C15_Witness ==
    /\ job.failure = "NoKnowledgeBase"
    /\ job.request.locale = "fr-FR"
    /\ knowledge_bases # {}
    /\ DOMAIN evaluations # {}
    /\ served.evaluate = 2

(***************************************************************************)
(* C16.  A job whose quality assessor call or rule-compliance assessor     *)
(* call failed with an external-service error is not aborted: the phase    *)
(* gives no findings and the job goes on.                                  *)
(***************************************************************************)
C16_AssessorFailureNeverAborts ==
    (job.quality_answer.kind = "error" \/ job.compliance_answer.kind = "error")
        => /\ job.phase # "Failed"
           /\ job.quality_answer.kind = "error" => job.quality = <<>>
           /\ job.compliance_answer.kind = "error" => job.compliance = <<>>

\* an answer that is no JSON, or that holds an entry lacking a required
\* field or carrying a severity outside the enumeration
Malformed(answer, required) ==
    \/ answer.kind = "text"
    \/ \E i \in 1..Len(answer.findings) :
          \/ required \ DOMAIN answer.findings[i] # {}
          \/ ("severity" \in DOMAIN answer.findings[i] /\ answer.findings[i].severity \notin Severity)

(***************************************************************************)
(* C17.  A job whose assessor returned malformed output (no JSON, an entry *)
(* lacking a required field, a severity outside Minor, Major, Critical) is *)
(* not aborted: the phase gives no findings and the job goes on.           *)
(***************************************************************************)
C17_MalformedOutputNeverAborts ==
    /\ Malformed(job.quality_answer, {"issue_type", "severity"}) =>
          (job.phase # "Failed" /\ job.quality = <<>>)
    /\ Malformed(job.compliance_answer, {"rule_id", "severity"}) =>
          (job.phase # "Failed" /\ job.compliance = <<>>)

\* the candidate rule a compliance finding was made from
FromCandidate(f, rule) ==
    /\ f.rule_id = rule.rule_id
    /\ f.penalty = rule.default_weight * severity_multipliers[f.severity]

C19_AbsentIndexGivesNoCandidates ==
    (job.index_absent /\ InPhases("RetrievalDone")) =>
        /\ job.candidate_rules = <<>>
        /\ job.compliance_answer = NoAnswer
        /\ job.compliance = <<>>
        /\ job.phase # "Failed"

(***************************************************************************)
(* C20.  For every saved knowledge base whose rules have been indexed, a   *)
(* hybrid_search of a new EmbeddingService for its version and locale      *)
(* loads an index and returns rules of that knowledge base.                *)
(***************************************************************************)
C20_IndexKeyedByKnowledgeBase ==
    \A kb \in knowledge_bases :
        <<kb.kb_version, kb.locale>> \in indexed =>
            LET search == hybrid_search(EmbeddingService, embeddings, 20, kb.locale,
                                        kb.kb_version, TRUE)
            IN /\ search.results # <<>>
               /\ \A i \in 1..Len(search.results) :
                     \E k \in 1..Len(kb.rules) : search.results[i] = kb.rules[k]

(***************************************************************************)
(* Vocabulary of the properties of the mechanical checks.                  *)
(***************************************************************************)
\* the number of occurrences of half-width marks of the map in a text
HalfWidthMarks(text) ==
    Cardinality({i \in 1..Len(text) :
                    \E k \in 1..Len(zh_punctuation_map) : CharAt(text, i) = zh_punctuation_map[k][1]})

\* the findings of the n-th check of run_all_checks
CheckFindings(n) == job.checks[n]

(***************************************************************************)
(* C21.  With locale zh-CN and at least one Punctuation rule among the     *)
(* rules, the punctuation-width check gives one finding per occurrence of  *)
(* a half-width mark in the target, each of severity Major with penalty    *)
(* twice the weight of a Punctuation rule, whatever the default severity   *)
(* of that rule; with any other locale it gives no finding.                *)
(***************************************************************************)
C21_PunctuationFindingsAreMajor ==
    InPhases("PunctuationChecked") =>
        LET found == CheckFindings(1)
            punctuation == {rule \in Range(job.kb.rules) : rule.macro_class = "Punctuation"}
        IN IF job.request.locale = "zh-CN"
           THEN punctuation # {} =>
                  /\ Len(found) = HalfWidthMarks(job.request.target_text)
                  /\ \A i \in 1..Len(found) :
                        /\ found[i].severity = "Major"
                        /\ \E rule \in punctuation :
                              /\ found[i].rule_id = rule.rule_id
                              /\ found[i].penalty = rule.default_weight * 2
           ELSE found = <<>>

\* the rules whose text mentions placeholders or tags, in rule order
PlaceholderRules(rules) ==
    LET Mentions(rule) == \/ Contains(Lower(rule.rule_text), "placeholder")
                          \/ Contains(Lower(rule.rule_text), "tag")
    IN SelectSeq(rules, Mentions)

(***************************************************************************)
(* C22 as stated.  The placeholder check gives exactly one Major finding   *)
(* for each placeholder that is in the source and not in the target and    *)
(* for each that is in the target and not in the source, with penalty      *)
(* twice the weight of the first rule whose text mentions placeholders or  *)
(* tags; it gives none when the two sets are equal, and a placeholder      *)
(* dropped from the target always gives a Major finding.                   *)
(***************************************************************************)
C22_OneMajorFindingPerPlaceholder ==
    InPhases("PlaceholdersChecked") =>
        LET found == CheckFindings(2)
            in_source == Placeholders(job.request.source_text)
            in_target == Placeholders(job.request.target_text)
            placeholder_rules == PlaceholderRules(job.kb.rules)
        IN /\ Len(found) = Cardinality(in_source \ in_target) + Cardinality(in_target \ in_source)
           /\ \A i \in 1..Len(found) :
                 /\ found[i].severity = "Major"
                 /\ placeholder_rules # <<>>
                 /\ found[i].rule_id = placeholder_rules[1].rule_id
                 /\ found[i].penalty = 2 * placeholder_rules[1].default_weight
           /\ in_source = in_target => found = <<>>
           /\ in_source \ in_target # {} => \E i \in 1..Len(found) : found[i].severity = "Major"


(***************************************************************************)
(* C22.  When some rule of the rule set mentions placeholders or tags,     *)
(* the placeholder check gives exactly one Major finding for each          *)
(* placeholder that is in the source and not in the target and for each    *)
(* that is in the target and not in the source, with penalty twice the     *)
(* weight of the first such rule, none when the two sets are equal, and a  *)
(* Major finding whenever a placeholder is dropped from the target.        *)
(***************************************************************************)
C22_WithPlaceholderRule ==
    PlaceholderRules(job.kb.rules) # <<>> => C22_OneMajorFindingPerPlaceholder

\* a placeholder replaced by another one: one finding for the missing and
\* one for the added placeholder
C22_Witness ==
    /\ InPhases("PlaceholdersChecked")
    /\ PlaceholderRules(job.kb.rules) # <<>>
    /\ Placeholders(job.request.source_text) \ Placeholders(job.request.target_text) # {}
    /\ Placeholders(job.request.target_text) \ Placeholders(job.request.source_text) # {}
    /\ Len(CheckFindings(2)) = 2

\* the findings of a list that carry a rule id
WithRule(found, rule_id) == {i \in 1..Len(found) : found[i].rule_id = rule_id}

\* the positions of the pattern rules whose pattern re cannot compile
InvalidRules(rules) == {k \in 1..Len(rules) : rules[k].regex_pattern = "INVALID"}

(***************************************************************************)
(* C23.  A rule whose pattern is invalid is skipped without aborting       *)
(* run_all_checks: the call returns, with the findings of the four other   *)
(* checks and, for every other pattern rule, before or after the invalid   *)
(* one, one finding per match of its pattern in the target.                *)
(***************************************************************************)
C23_InvalidPatternIsSkipped ==
    LET pattern_rules == RegexReadyRules(job.kb.rules) IN
    InvalidRules(pattern_rules) # {} =>
        /\ job.phase # "Failed"
        /\ InPhases("MechanicalChecked") =>
              /\ job.mechanical = CheckFindings(1) \o CheckFindings(2) \o CheckFindings(3)
                                    \o CheckFindings(4) \o CheckFindings(5)
              /\ \A k \in 1..Len(pattern_rules) :
                    Cardinality(WithRule(CheckFindings(5), pattern_rules[k].rule_id))
                      = IF k \in InvalidRules(pattern_rules) THEN 0
                        ELSE Len(FindAll(pattern_rules[k].regex_pattern, job.request.target_text))
              /\ \A i \in 1..Len(CheckFindings(5)) :
                    \E k \in 1..Len(pattern_rules) : CheckFindings(5)[i].rule_id = pattern_rules[k].rule_id

\* run_all_checks returned findings of a pattern rule before and of one
\* after the invalid rule, and findings of other checks
C23_Witness ==
    /\ job.phase = "MechanicalChecked"
    /\ LET pattern_rules == RegexReadyRules(job.kb.rules) IN
       \E k \in InvalidRules(pattern_rules) :
          /\ \E b \in 1..(k - 1) : WithRule(CheckFindings(5), pattern_rules[b].rule_id) # {}
          /\ \E a \in (k + 1)..Len(pattern_rules) : WithRule(CheckFindings(5), pattern_rules[a].rule_id) # {}
    /\ CheckFindings(1) # <<>>
    /\ Len(job.mechanical) > Len(CheckFindings(5))

(***************************************************************************)
(* C24.  Score recomputation is idempotent: on every saved record,         *)
(* recomputing the recomputed record gives the same final_score and the    *)
(* same by_macro, a record an override has recomputed is reproduced by     *)
(* recomputing it, and dismissing a finding that is already dismissed      *)
(* leaves final_score and by_macro of the previous override unchanged.     *)
(***************************************************************************)
C24_RecomputationIdempotent ==
    /\ [](\A file \in Files :
            LET r == evaluations[file]
                once == _recalculate_score(r)
                twice == _recalculate_score(once)
            IN /\ twice.final_score = once.final_score
               /\ twice.by_macro = once.by_macro
               /\ r.last_updated => once.final_score = r.final_score /\ once.by_macro = r.by_macro)
    /\ [][OverrideStep("dismiss") =>
            \A file \in Files :
                LET r == evaluations[file]
                    event == feedback'[Len(feedback')]
                IN HasTarget(r.findings, event) /\ r.findings[Target(r.findings, event)].dismissed
                   => /\ evaluations'[file].final_score = r.final_score
                      /\ evaluations'[file].by_macro = r.by_macro]_vars

\* the same finding has been dismissed twice in a record that still has
\* findings lowering the score
C24_Witness ==
    /\ Len(feedback) = 2
    /\ feedback[1].action = "dismiss"
    /\ feedback[2].action = "dismiss"
    /\ IsTarget(feedback[1], feedback[2])
    /\ \E file \in Files :
        LET r == evaluations[file] IN
        /\ HasTarget(r.findings, feedback[1])
        /\ r.findings[Target(r.findings, feedback[1])].dismissed
        /\ Len(Live(r.findings)) >= 1
        /\ r.final_score < 100
        /\ r.by_macro # <<>>

\* the rule ids of the findings of the quality phase
QualityRuleIds == {SyntheticRuleId[t] : t \in QualityIssueTypes}

(***************************************************************************)
(* C25.  In a record as evaluate wrote it, the penalty of a quality        *)
(* finding is 15 times the multiplier of its severity and the penalty of   *)
(* a compliance finding is the default weight of the rule it names times   *)
(* the multiplier of its severity; the multipliers are Minor 1, Major 2,   *)
(* Critical 3, strictly increasing with severity.                          *)
(***************************************************************************)
C25_PenaltyIsWeightTimesMultiplier ==
    /\ severity_multipliers = [s \in Severity |->
                                  CASE s = "Minor" -> 1 [] s = "Major" -> 2 [] s = "Critical" -> 3]
    /\ severity_multipliers["Minor"] < severity_multipliers["Major"]
    /\ severity_multipliers["Major"] < severity_multipliers["Critical"]
    /\ \A file \in Files :
         LET r == evaluations[file] IN
         ~r.last_updated =>
            \A i \in 1..Len(r.findings) :
               LET f == r.findings[i] IN
               ~f.deterministic =>
                  IF f.rule_id \in QualityRuleIds
                  THEN f.penalty = 15 * severity_multipliers[f.severity]
                  ELSE \E k \in 1..Len(KB.rules) :
                          /\ KB.rules[k].rule_id = f.rule_id
                          /\ f.penalty = KB.rules[k].default_weight * severity_multipliers[f.severity]

\* evaluate has written a record with a Critical quality finding of
\* penalty 45, a Minor one of penalty 15 and a Major compliance finding
C25_Witness ==
    \E file \in Files :
        LET r == evaluations[file] IN
        /\ ~r.last_updated
        /\ \E i \in 1..Len(r.findings) :
              /\ r.findings[i].rule_id \in QualityRuleIds
              /\ r.findings[i].severity = "Critical" /\ r.findings[i].penalty = 45
        /\ \E i \in 1..Len(r.findings) :
              /\ r.findings[i].rule_id \in QualityRuleIds
              /\ r.findings[i].severity = "Minor" /\ r.findings[i].penalty = 15
        /\ \E i \in 1..Len(r.findings) :
              /\ ~r.findings[i].deterministic
              /\ r.findings[i].rule_id \notin QualityRuleIds
              /\ r.findings[i].severity = "Major" /\ r.findings[i].penalty = 10

\* the first finding of a list that carries the identifier, 0 when none does
FirstMatch(findings, finding_id) ==
    FirstIndex({k \in 1..Len(findings) : MatchesId(findings[k], finding_id)})

(***************************************************************************)
(* C26.  An override that locates its finding mutates only the first       *)
(* finding, in record order, of one evaluation record that carries the     *)
(* identifier as segment_id or rule_id: every other finding of that record *)
(* keeps all its fields, in particular severity, penalty, dismissed and    *)
(* accepted, and every other saved record is unchanged.                    *)
(***************************************************************************)
C26_OverrideMutatesOnlyItsTarget ==
    [][OverrideAnswered("ok") =>
         /\ DOMAIN evaluations' = DOMAIN evaluations
         /\ \E file \in Files, finding_id \in FindingIds :
               LET r == evaluations[file]
                   event == feedback'[Len(feedback')]
                   i == FirstMatch(r.findings, finding_id)
               IN /\ i > 0
                  /\ IsTarget(r.findings[i], event)
                  /\ Len(evaluations'[file].findings) = Len(r.findings)
                  /\ \A k \in 1..Len(r.findings) :
                        k # i => evaluations'[file].findings[k] = r.findings[k]
                  /\ \A other \in Files \ {file} : evaluations'[other] = evaluations[other]]_vars

\* two records carry the identifier of the last override, one of them with
\* two findings that carry it: the first of these is dismissed, the second
\* is not, and the other record has not been touched by any override
C26_Witness ==
    /\ Len(feedback) >= 1
    /\ LastEvent.action = "dismiss"
    /\ \E file, other \in Files :
        LET r == evaluations[file]
            matching == {k \in 1..Len(r.findings) : IsTarget(r.findings[k], LastEvent)}
        IN /\ file # other
           /\ Cardinality(matching) >= 2
           /\ \E i, k \in matching : i < k /\ r.findings[i].dismissed /\ ~r.findings[k].dismissed
           /\ HasTarget(evaluations[other].findings, LastEvent)
           /\ ~evaluations[other].last_updated
           /\ \A k \in 1..Len(evaluations[other].findings) : ~evaluations[other].findings[k].dismissed

\* the override request that changes the severity of the finding named by
\* an identifier
ChangeSeverity(finding_id, severity) ==
    [finding_id |-> finding_id, action |-> "change_severity", new_severity |-> severity]

(***************************************************************************)
(* C27.  Severity changes are reversible: after an override has changed    *)
(* the severity of a finding from s to t, the override that changes it     *)
(* back from t to s, by the same identifier on the same record, restores   *)
(* the penalty and the severity the finding had before, and with them the  *)
(* whole finding list; this holds for mechanical, quality and compliance   *)
(* findings, changed before or not.                                        *)
(***************************************************************************)
C27_SeverityChangeIsReversible ==
    [][OverrideStep("change_severity") /\ feedback'[Len(feedback')].new_value \in Severity =>
         \A file \in Files :
             LET r == evaluations[file]
                 event == feedback'[Len(feedback')]
             IN evaluations'[file] # r =>
                  LET i == Target(r.findings, event) IN
                  /\ evaluations'[file].findings[i].severity = event.new_value
                  /\ \A finding_id \in {event.segment_id, event.rule_id} :
                        FirstMatch(r.findings, finding_id) = i =>
                           LET back == process_override(evaluations'[file],
                                           ChangeSeverity(finding_id, r.findings[i].severity),
                                           Len(feedback') + 1).evaluation
                           IN /\ back.findings[i].penalty = r.findings[i].penalty
                              /\ back.findings[i].severity = r.findings[i].severity
                              /\ back.findings = r.findings]_vars

\* two overrides have changed a Minor mechanical finding of penalty 4
\* (weight 2 times 2) to another severity and back, and its penalty is 4
C27_Witness ==
    /\ Len(feedback) = 2
    /\ feedback[1].action = "change_severity" /\ feedback[2].action = "change_severity"
    /\ IsTarget(feedback[1], feedback[2])
    /\ feedback[1].old_value = "Minor" /\ feedback[1].new_value \in {"Major", "Critical"}
    /\ feedback[2].old_value = feedback[1].new_value /\ feedback[2].new_value = "Minor"
    /\ \E file \in Files :
        LET r == evaluations[file] IN
        /\ HasTarget(r.findings, feedback[2])
        /\ r.findings[Target(r.findings, feedback[2])].deterministic
        /\ r.findings[Target(r.findings, feedback[2])].severity = "Minor"
        /\ r.findings[Target(r.findings, feedback[2])].penalty = 4

(***************************************************************************)
(* C28.  An override that changes no finding's penalty and no finding's    *)
(* dismissed flag (accept, reclassify, change_severity without a new       *)
(* severity) leaves the final_score of a record evaluate wrote and the     *)
(* penalty and the count of every category of its by_macro as evaluate     *)
(* computed them.                                                          *)
(***************************************************************************)
C28_NeutralOverrideKeepsScore ==
    [][OverrideAnswered("ok") =>
         \A file \in Files :
             LET r == evaluations[file]
                 after == evaluations'[file]
             IN (/\ ~r.last_updated
                 /\ \A i \in 1..Len(r.findings) :
                       /\ after.findings[i].penalty = r.findings[i].penalty
                       /\ after.findings[i].dismissed = r.findings[i].dismissed)
                => /\ after.final_score = r.final_score
                   /\ \A macro_class \in MacroClass :
                         /\ PenaltyOf(after.by_macro, macro_class) = PenaltyOf(r.by_macro, macro_class)
                         /\ CountOf(after.by_macro, macro_class) = CountOf(r.by_macro, macro_class)]_vars

\* the rules of the index built for a knowledge base (version, locale):
\* those of its index file, none while the file does not exist
IndexOf(kb_version, locale) ==
    IF IndexFile(kb_version, locale) \in DOMAIN embeddings
    THEN Range(embeddings[IndexFile(kb_version, locale)])
    ELSE {}

(***************************************************************************)
(* C29.  Every rule hybrid_search returned to a job for its knowledge base *)
(* (version, locale) is a rule of the index built for that knowledge base, *)
(* whatever the EmbeddingService instance indexed or loaded before, and    *)
(* the index file of a knowledge base holds rules of that knowledge base   *)
(* only.                                                                   *)
(***************************************************************************)
C29_SearchStaysInItsKnowledgeBase ==
    /\ InPhases("RetrievalDone") =>
          \A i \in 1..Len(job.candidate_rules) :
              /\ ~job.index_absent
              /\ job.candidate_rules[i] \in IndexOf(job.kb.kb_version, job.request.locale)
    /\ \A kb \in knowledge_bases : IndexOf(kb.kb_version, kb.locale) \subseteq Range(kb.rules)

\* an identifier a reviewer can send selects the finding: the finding is
\* the first of its record that carries its segment_id, or the first that
\* carries its rule_id
Selectable(findings, i) ==
    \E finding_id \in {findings[i].segment_id, findings[i].rule_id} :
        FirstMatch(findings, finding_id) = i

(***************************************************************************)
(* C30.  Every finding of a saved record can be reached by a reviewer:     *)
(* some override request acts on it, so that a sequence of overrides can   *)
(* dismiss it, also when several findings of the record share segment_id   *)
(* and rule_id.  (Overrides never change the identifiers or the order of   *)
(* the findings, so a finding can be reached at some time exactly when an  *)
(* identifier selects it now.)                                             *)
(***************************************************************************)
C30_EveryFindingReachable ==
    \A file \in Files :
        \A i \in 1..Len(evaluations[file].findings) :
            Selectable(evaluations[file].findings, i)

=============================================================================
